---------------------------- MODULE Spec2Model ----------------------------
(***************************************************************************)
(* A model of the core of the nx ZX Spectrum emulator: the memory bank     *)
(* with its contention table (src/src/memory.h, memory part) and the Z80   *)
(* interpreter (src/src/memory.h, z80 part).                               *)
(*                                                                         *)
(* The specifications share the variables:                                *)
(*   SpecOpen     memoryOpen building the contention table and filling     *)
(*                memory;                                                  *)
(*   SpecMem      the memory bank's pokes and peeks applied to inputs      *)
(*                drawn from small sets;                                   *)
(*   SpecContend  memoryContend and memoryContention;                      *)
(*   SpecRom      Spectrum::poke behind the ROM write flag;                *)
(*   Spec         z80Step run on one-instruction programs;                *)
(*   SpecFrame    Spectrum::update: breakpoints, the end of the frame and  *)
(*                the interrupt;                                           *)
(*   SpecRun      whole z80Steps of relative jumps, block instructions,    *)
(*                additions, subtractions and runs of prefixes;            *)
(*   SpecDaa      DAA behind the additions and subtractions of BCD bytes;  *)
(*   SpecMode     Nx::setRunMode and Nx::getRunMode.                       *)
(***************************************************************************)
EXTENDS Integers, Sequences, FiniteSets, TLC

VARIABLES
    contention,     \* Memory.contention as memoryOpen left it: [tab, t]
    openPc,         \* "closed" before memoryOpen, "done" after it
    mem,            \* Memory.memory: address -> byte; an address not in the domain holds 0
    tState,         \* the T-state counter the operations take as inOutTStates
    romWritable,    \* Spectrum::m_romWritable
    hist,           \* the memory operations applied so far, with what each returned
    regs,           \* the Z80 structure's registers and flip-flops
    last,           \* what the last z80Step did: bus log, fetches, table reads
    steps,          \* number of z80Step calls so far
    host            \* Spectrum: run mode, breakpoints, frames completed, hits reported

vars == <<contention, openPc, mem, tState, romWritable, hist, regs, last, steps, host>>

-----------------------------------------------------------------------------
(* Fixed-width integer arithmetic.                                         *)

U8(x) == x % 256
U16(x) == x % 65536
LO(x) == U8(x % 256)
HI(x) == U8(x \div 256)
I8(x) == IF U8(x) >= 128 THEN U8(x) - 256 ELSE U8(x)
Bit(x, n) == (x \div (2 ^ n)) % 2

RECURSIVE BitAnd(_, _)
BitAnd(a, b) ==
    IF a = 0 \/ b = 0 THEN 0
    ELSE (a % 2) * (b % 2) + 2 * BitAnd(a \div 2, b \div 2)

RECURSIVE BitOr(_, _)
BitOr(a, b) ==
    IF a = 0 THEN b
    ELSE IF b = 0 THEN a
    ELSE (IF a % 2 = 1 \/ b % 2 = 1 THEN 1 ELSE 0) + 2 * BitOr(a \div 2, b \div 2)

RECURSIVE BitXor(_, _)
BitXor(a, b) ==
    IF a = 0 THEN b
    ELSE IF b = 0 THEN a
    ELSE ((a + b) % 2) + 2 * BitXor(a \div 2, b \div 2)

-----------------------------------------------------------------------------
(* memoryOpen: the contention table.                                       *)

contentionStart == 14335
ContentionLines == 192
LineTStates == 224
LineContended == 128
ContentionSize == 70930
contentionEnd == contentionStart + (ContentionLines * LineTStates)

\* Memory.contention is modelled as the sequence tab of its entries up to the
\* highest index stored so far: entry k of the array is tab[k + 1], and an entry
\* past Len(tab) still holds the 0 that K_ALLOC_CLEAR put there.
ArrayRead(tab, k) == IF k < Len(tab) THEN tab[k + 1] ELSE 0

Zeros(n) == [i \in 1 .. n |-> 0]

\* The eight stores of one pass of the for loop, in the order of the t++.
ContentionPattern == <<6, 5, 4, 3, 2, 1, 0, 0>>

\* mem->contention[t++] = 6; ... mem->contention[t++] = 0; on [tab, t].
Store8(st) ==
    LET t == st.t
        n == Len(st.tab)
    IN  [tab |-> IF t >= n
                 THEN st.tab \o Zeros(t - n) \o ContentionPattern
                 ELSE [k \in 1 .. (IF t + 8 > n THEN t + 8 ELSE n) |->
                          IF k - 1 >= t /\ k - 1 < t + 8
                          THEN ContentionPattern[k - t]
                          ELSE st.tab[k]],
         t |-> t + 8]

\* for (int i = 0; i < 128; i += 8)
RECURSIVE OpenFor(_, _)
OpenFor(st, i) ==
    IF i < LineContended THEN OpenFor(Store8(st), i + 8) ELSE st

\* OpenLine with the border skip of a whole line instead of the 96 T-states left.
OpenLine_SkipLine(st) ==
    LET f == OpenFor(st, 0)
    IN  [f EXCEPT !.t = f.t + LineTStates]

\* One pass of while (t < contentionEnd): the for loop, then the border skip.
OpenLine(st) ==
    LET f == OpenFor(st, 0)
    IN  [f EXCEPT !.t = f.t + (LineTStates - LineContended)]

\* while (t < contentionEnd) { ... }, cut off after n passes. The passes are
\* split in halves to keep the evaluation shallow.
RECURSIVE OpenPasses(_, _)
OpenPasses(st, n) ==
    IF ~(st.t < contentionEnd) \/ n = 0 THEN st
    ELSE IF n = 1 THEN OpenLine(st)
    ELSE OpenPasses(OpenPasses(st, n \div 2), n - (n \div 2))

\* More passes than the while loop makes.
MaxPasses == 256

OpenWhile(st) == OpenPasses(st, MaxPasses)

\* memoryOpen's locals before the while loop.
OpenStart == [tab |-> <<>>, t |-> contentionStart]

\* Memory.contention once memoryOpen has returned.
ContentionTable == OpenWhile(OpenStart).tab

InTable(t) == t >= 0 /\ t < ContentionSize

\* mem->contention[t]; a read outside the allocation yields whatever byte ub is.
TableRead(t, ub) ==
    IF InTable(t)
    THEN ArrayRead(ContentionTable, t)
    ELSE ub

-----------------------------------------------------------------------------
(* The memory bank. The operations act on a bus record s with the fields   *)
(*   mem, t     the memory and the T-state counter,                        *)
(*   log        the MC/MW/MR lines of the results file, as <<kind, t, addr, byte>>, *)
(*   reads      the indices at which mem->contention has been read,        *)
(*   ub         the byte a read outside the array (0 .. 70929) yields,     *)
(*   ord        the order in which memoryPeek16's two operands are evaluated. *)

IsContended(addr) == BitAnd(addr, 49152) = 16384

MemRead(m, a) == IF a \in DOMAIN m THEN m[a] ELSE 0
MemWrite(m, a, b) == [k \in DOMAIN m \cup {a} |-> IF k = a THEN b ELSE m[k]]

\* ContendLoop that reads the table once, at the t-state of entry.
ContendLoop_ReadOnce(s, delay, i, n) ==
    IF i < n
    THEN [s EXCEPT !.t = s.t + (n - i) * (TableRead(s.t, s.ub) + delay),
                   !.reads = s.reads \o [k \in 1 .. (n - i) |-> s.t]]
    ELSE s

RECURSIVE ContendLoop(_, _, _, _)
ContendLoop(s, delay, i, n) ==
    IF i < n
    THEN ContendLoop([s EXCEPT !.t = s.t + TableRead(s.t, s.ub) + delay,
                               !.reads = Append(s.reads, s.t)],
                     delay, i + 1, n)
    ELSE s

\* memoryContend that takes no time away from contended memory.
memoryContend_ContendedOnly(s, addr, delay, n) ==
    LET s1 == [s EXCEPT !.log = Append(s.log, <<"MC", s.t, addr, 0>>)]
    IN  IF IsContended(addr)
        THEN ContendLoop(s1, delay, 0, n)
        ELSE s1

memoryContend(s, addr, delay, n) ==
    LET s1 == [s EXCEPT !.log = Append(s.log, <<"MC", s.t, addr, 0>>)]
    IN  IF IsContended(addr)
        THEN ContendLoop(s1, delay, 0, n)
        ELSE [s1 EXCEPT !.t = s.t + delay * n]

\* memoryPokeNoContend without the test for ROM.
memoryPokeNoContend_Unguarded(s, address, b) ==
    [s EXCEPT !.log = Append(s.log, <<"MW", s.t, address, b>>),
              !.mem = MemWrite(s.mem, address, b)]

memoryPokeNoContend(s, address, b) ==
    LET s1 == [s EXCEPT !.log = Append(s.log, <<"MW", s.t, address, b>>)]
    IN  IF address >= 16384
        THEN [s1 EXCEPT !.mem = MemWrite(s.mem, address, b)]
        ELSE s1

\* memoryPoke that stores first and contends afterwards.
memoryPoke_StoreFirst(s, address, b) ==
    memoryContend(memoryPokeNoContend(s, address, b), address, 3, 1)

memoryPoke(s, address, b) ==
    memoryPokeNoContend(memoryContend(s, address, 3, 1), address, b)

\* memoryPoke16 that stores the high byte first.
memoryPoke16_HighFirst(s, address, w) ==
    memoryPoke(memoryPoke(s, U16(address + 1), HI(w)), address, LO(w))

memoryPoke16(s, address, w) ==
    memoryPoke(memoryPoke(s, address, LO(w)), U16(address + 1), HI(w))

\* memoryPeekNoContend: the byte it returns, and the bus after it.
memoryPeekNoContendValue(s, address) == MemRead(s.mem, address)
memoryPeekNoContend(s, address) ==
    [s EXCEPT !.log = Append(s.log, <<"MR", s.t, address, MemRead(s.mem, address)>>)]

memoryPeekValue(s, address) == memoryPeekNoContendValue(s, address)
memoryPeek(s, address) ==
    memoryPeekNoContend(memoryContend(s, address, 3, 1), address)

\* memoryPeek(address) + 256 * memoryPeek(address + 1): C leaves the order of the
\* two calls to the compiler, s.ord is the order the build chose.
memoryPeek16Value(s, address) ==
    memoryPeekValue(s, address) + 256 * memoryPeekValue(s, U16(address + 1))
memoryPeek16(s, address) ==
    IF s.ord = "lohi"
    THEN memoryPeek(memoryPeek(s, address), U16(address + 1))
    ELSE memoryPeek(memoryPeek(s, U16(address + 1)), address)

\* memoryContention: the wait states at tStates, or the failed K_ASSERT.
memoryContentionAsserts(addr, tStates) == IsContended(addr) /\ ~(tStates < ContentionSize)
memoryContention(addr, tStates, ub) ==
    IF IsContended(addr) THEN TableRead(tStates, ub) ELSE 0
memoryContentionBus(s, addr) ==
    [s EXCEPT !.log = Append(s.log, <<"MC", s.t, addr, 0>>),
              !.reads = IF IsContended(addr) THEN Append(s.reads, s.t) ELSE s.reads]

\* memoryCopy(src, dst, size): size bytes of buffer go to the bytes from address
\* of the array m (an index past 65535 is past the end of mem->memory).
memoryCopy(m, address, buffer, size) ==
    [k \in DOMAIN m \cup {address + i : i \in 0 .. size - 1} |->
        IF k >= address /\ k < address + size THEN buffer[k - address + 1] ELSE m[k]]

Min(a, b) == IF a < b THEN a ELSE b

\* memoryLoad that copies size bytes whatever the address.
memoryLoad_Unclamped(s, address, buffer, size) ==
    [s EXCEPT !.mem = memoryCopy(s.mem, address, buffer, size)]

memoryLoad(s, address, buffer, size) ==
    LET clampedSize == Min(address + size, 65536) - address
    IN  [s EXCEPT !.mem = memoryCopy(s.mem, address, buffer, clampedSize)]

-----------------------------------------------------------------------------
(* The Z80 structure after z80Init: memoryClear leaves every field 0.      *)

z80Init ==
    [af |-> 0, bc |-> 0, de |-> 0, hl |-> 0, sp |-> 0, pc |-> 0, ix |-> 0, iy |-> 0,
     ir |-> 0, af_ |-> 0, bc_ |-> 0, de_ |-> 0, hl_ |-> 0, m |-> 0,
     halt |-> FALSE, iff1 |-> FALSE, iff2 |-> FALSE, im |-> 0,
     lastOpcodeWasEI |-> FALSE]

NoStep ==
    [pos |-> "idle", ub |-> 0, ord |-> "lohi", inb |-> 0,
     log |-> <<>>, reads |-> <<>>, fetches |-> <<>>, t0 |-> 0, mem0 |-> <<>>,
     regs0 |-> z80Init]

\* The value of the variable host in the specifications that do not run
\* Spectrum::update.
NoHost == [mode |-> "Normal", breakpoints |-> {}, frames |-> 0, hits |-> 0]

\* The value of the variable contention in the specifications that use the
\* finished table (ContentionTable) and do not run memoryOpen.
NoTable == [tab |-> <<>>, t |-> 0]

\* The bus record of the current state, for one operation.
Bus(ub, ord) ==
    [mem |-> mem, t |-> tState, log |-> <<>>, reads |-> <<>>, ub |-> ub, ord |-> ord]

\* A read of mem->contention outside the array is among the reads.
OutOfTable(reads) == \E i \in 1 .. Len(reads) : ~InTable(reads[i])

UBBytes == {0, 255}
PeekOrders == {"lohi", "hilo"}

-----------------------------------------------------------------------------
(* SpecOpen: memoryOpen on a bank not yet opened.                          *)

\* Addresses and bytes of the random fill that the model follows. The fill
\* stops before 0xFFFF, which keeps what K_ALLOC left there: any byte as well.
OpenAddrs == {0, 16383, 16384, 65535}
OpenBytes == {0, 127, 128, 255}

InitOpen ==
    /\ contention = NoTable
    /\ openPc = "closed"
    /\ mem = <<>>
    /\ tState = 0
    /\ romWritable = FALSE
    /\ hist = <<>>
    /\ regs = z80Init
    /\ last = NoStep
    /\ steps = 0
    /\ host = NoHost

\* memoryOpen: the contention table is built, memory holds random bytes.
memoryOpen ==
    /\ openPc = "closed"
    /\ contention' = OpenWhile(OpenStart)
    /\ mem' \in [OpenAddrs -> OpenBytes]
    /\ openPc' = "done"
    /\ UNCHANGED <<tState, romWritable, hist, regs, last, steps, host>>

NextOpen == memoryOpen

SpecOpen == InitOpen /\ [][NextOpen]_vars

-----------------------------------------------------------------------------
(* SpecMem, SpecContend, SpecRom: the memory bank's operations applied to  *)
(* inputs from small sets. hist keeps, for every operation applied, its    *)
(* inputs, the bus before (s0) and after (s1) it and the value returned.   *)

MemAddrs == {16383, 16384, 32767, 65535}
MemBytes == {18, 255}
MemWords == {4660, 65280}
MemDelays == {1, 4}
MemCounts == {0, 1, 2}
MemTStates == {0, 14335, 14340, 70927}
MemImage == (0 :> 243) @@ (16383 :> 60) @@ (16384 :> 119) @@ (65535 :> 201)

InitMem ==
    /\ contention = NoTable
    /\ openPc = "done"
    /\ mem = MemImage
    /\ tState \in MemTStates
    /\ romWritable = FALSE
    /\ hist = <<>>
    /\ regs = z80Init
    /\ last = NoStep
    /\ steps = 0
    /\ host = NoHost

OpRecord(op, addr, val, delay, n, s0, s1, ret) ==
    [op |-> op, addr |-> addr, val |-> val, delay |-> delay, n |-> n,
     t0 |-> s0.t, t1 |-> s1.t, mem0 |-> s0.mem, mem1 |-> s1.mem, log |-> s1.log,
     reads |-> s1.reads, ub |-> IF OutOfTable(s1.reads) THEN s0.ub ELSE 0,
     ord |-> IF op = "peek16" THEN s0.ord ELSE "lohi", rw |-> romWritable, ret |-> ret]

Applied(op, addr, val, delay, n, s0, s1, ret) ==
    /\ mem' = s1.mem
    /\ tState' = s1.t
    /\ hist' = Append(hist, OpRecord(op, addr, val, delay, n, s0, s1, ret))
    /\ UNCHANGED <<contention, openPc, romWritable, regs, last, steps, host>>

MaxOps == 2

DoPokeNoContend ==
    \E a \in MemAddrs, b \in MemBytes :
        LET s0 == Bus(0, "lohi")
        IN  /\ Len(hist) < MaxOps
            /\ Applied("pokeNoContend", a, b, 0, 0, s0, memoryPokeNoContend(s0, a, b), 0)

DoPoke ==
    \E a \in MemAddrs, b \in MemBytes, ub \in UBBytes :
        LET s0 == Bus(ub, "lohi")
        IN  /\ Len(hist) < MaxOps
            /\ Applied("poke", a, b, 0, 0, s0, memoryPoke(s0, a, b), 0)

DoPoke16 ==
    \E a \in MemAddrs, w \in MemWords, ub \in UBBytes :
        LET s0 == Bus(ub, "lohi")
        IN  /\ Len(hist) < MaxOps
            /\ Applied("poke16", a, w, 0, 0, s0, memoryPoke16(s0, a, w), 0)

DoPeekNoContend ==
    \E a \in MemAddrs :
        LET s0 == Bus(0, "lohi")
        IN  /\ Len(hist) < MaxOps
            /\ Applied("peekNoContend", a, 0, 0, 0, s0, memoryPeekNoContend(s0, a),
                       memoryPeekNoContendValue(s0, a))

DoPeek ==
    \E a \in MemAddrs, ub \in UBBytes :
        LET s0 == Bus(ub, "lohi")
        IN  /\ Len(hist) < MaxOps
            /\ Applied("peek", a, 0, 0, 0, s0, memoryPeek(s0, a), memoryPeekValue(s0, a))

DoPeek16 ==
    \E a \in MemAddrs, ub \in UBBytes, ord \in PeekOrders :
        LET s0 == Bus(ub, ord)
        IN  /\ Len(hist) < MaxOps
            /\ Applied("peek16", a, 0, 0, 0, s0, memoryPeek16(s0, a),
                       memoryPeek16Value(s0, a))

\* memoryLoad of the first size bytes of a buffer.
LoadAddrs == {16383, 65534}
LoadBuffers == {<<7>>, <<7, 8, 9>>}

DoLoad ==
    \E a \in LoadAddrs, buf \in LoadBuffers :
        \E size \in 0 .. Len(buf) :
            LET s0 == Bus(0, "lohi")
            IN  /\ Len(hist) < MaxOps
                /\ Applied("load", a, buf, 0, size, s0, memoryLoad(s0, a, buf, size), 0)

NextMem ==
    \/ DoLoad
    \/ DoPokeNoContend
    \/ DoPoke
    \/ DoPoke16
    \/ DoPeekNoContend
    \/ DoPeek
    \/ DoPeek16

SpecMem == InitMem /\ [][NextMem]_vars

\* SpecContend: memoryContend and memoryContention.
MaxContends == 2

DoContend ==
    \E a \in MemAddrs, d \in MemDelays, n \in MemCounts, ub \in UBBytes :
        LET s0 == Bus(ub, "lohi")
        IN  /\ Len(hist) < MaxContends
            /\ Applied("contend", a, 0, d, n, s0, memoryContend(s0, a, d, n), 0)

DoContention ==
    \E a \in MemAddrs, ub \in UBBytes :
        LET s0 == Bus(ub, "lohi")
        IN  /\ Len(hist) < MaxContends
            /\ ~memoryContentionAsserts(a, tState)
            /\ Applied("contention", a, 0, 0, 0, s0,
                       memoryContentionBus(s0, a), memoryContention(a, tState, ub))

NextContend == DoContend \/ DoContention

SpecContend == InitMem /\ [][NextContend]_vars

\* SpecRom: the Spectrum class's ROM write gate. Spectrum::poke(address, x, t)
\* contends for 3 T-states and stores when the address is RAM or the ROM has been
\* marked writable; Spectrum::peek(address) is the untimed read.
\* SpectrumPoke that never stores below 0x4000, whatever the flag.
SpectrumPoke_NoGate(s, rw, address, x) ==
    LET s1 == memoryContend(s, address, 3, 1)
    IN  IF address >= 16384
        THEN [s1 EXCEPT !.mem = MemWrite(s.mem, address, x)]
        ELSE s1

SpectrumPoke(s, rw, address, x) ==
    LET s1 == memoryContend(s, address, 3, 1)
    IN  IF address >= 16384 \/ rw
        THEN [s1 EXCEPT !.mem = MemWrite(s.mem, address, x)]
        ELSE s1

SpectrumPeek(s, address) == MemRead(s.mem, address)

MaxRomOps == 4
RomAddrs == {0, 16383, 16384}

InitRom ==
    /\ contention = NoTable
    /\ openPc = "done"
    /\ mem = MemImage
    /\ tState = 0
    /\ romWritable = FALSE
    /\ hist = <<>>
    /\ regs = z80Init
    /\ last = NoStep
    /\ steps = 0
    /\ host = NoHost

setRomWriteState ==
    \E writable \in BOOLEAN :
        LET s0 == Bus(0, "lohi")
        IN  /\ Len(hist) < MaxRomOps
            /\ romWritable' = writable
            /\ hist' = Append(hist, OpRecord("setRomWriteState", 0, writable, 0, 0, s0, s0, 0))
            /\ UNCHANGED <<contention, openPc, mem, tState, regs, last, steps, host>>

DoSpectrumPoke ==
    \E a \in RomAddrs, b \in MemBytes :
        LET s0 == Bus(0, "lohi")
        IN  /\ Len(hist) < MaxRomOps
            /\ Applied("poke", a, b, 0, 0, s0, SpectrumPoke(s0, romWritable, a, b), 0)

DoSpectrumPeek ==
    \E a \in RomAddrs :
        LET s0 == Bus(0, "lohi")
        IN  /\ Len(hist) < MaxRomOps
            /\ Applied("peek", a, 0, 0, 0, s0, s0, SpectrumPeek(s0, a))

NextRom == setRomWriteState \/ DoSpectrumPoke \/ DoSpectrumPeek

SpecRom == InitRom /\ [][NextRom]_vars

-----------------------------------------------------------------------------
(* The Z80 interpreter. A machine record s holds the Z80 structure's       *)
(* fields (af .. lastOpcodeWasEI), the bus (mem, t, log, reads, ub, ord),  *)
(* the byte the input ports deliver (inb), the R register before and after *)
(* each opcode fetch of the current z80Step (fetches) and the function the *)
(* step is in when it calls itself again through a prefix (pos).           *)

A(s) == HI(s.af)
F(s) == LO(s.af)
B(s) == HI(s.bc)
C(s) == LO(s.bc)
H(s) == HI(s.hl)
L(s) == LO(s.hl)
I(s) == HI(s.ir)
R(s) == LO(s.ir)

SetHi(w, v) == 256 * U8(v) + LO(w)
SetLo(w, v) == 256 * HI(w) + U8(v)

SetA(s, v) == [s EXCEPT !.af = SetHi(s.af, v)]
SetF(s, v) == [s EXCEPT !.af = SetLo(s.af, v)]
SetAF8(s, a, f) == [s EXCEPT !.af = 256 * U8(a) + U8(f)]
SetB(s, v) == [s EXCEPT !.bc = SetHi(s.bc, v)]
SetMP(s, v) == [s EXCEPT !.m = U16(v)]
SetPC(s, v) == [s EXCEPT !.pc = U16(v)]

F_CARRY == 1
F_NEG == 2
F_PARITY == 4
F_3 == 8
F_HALF == 16
F_5 == 32
F_ZERO == 64
F_SIGN == 128

\* A u8* of the code: a register half, "v" for a local variable of the caller,
\* "null" for what z80GetReg returns after its assertion has failed.
RefGet(s, r) ==
    CASE r = "A" -> HI(s.af) [] r = "F" -> LO(s.af)
      [] r = "B" -> HI(s.bc) [] r = "C" -> LO(s.bc)
      [] r = "D" -> HI(s.de) [] r = "E" -> LO(s.de)
      [] r = "H" -> HI(s.hl) [] r = "L" -> LO(s.hl)
      [] r = "IXH" -> HI(s.ix) [] r = "IXL" -> LO(s.ix)
      [] r = "IYH" -> HI(s.iy) [] r = "IYL" -> LO(s.iy)
      [] OTHER -> 0

RefSet(s, r, v) ==
    CASE r = "A" -> [s EXCEPT !.af = SetHi(s.af, v)]
      [] r = "F" -> [s EXCEPT !.af = SetLo(s.af, v)]
      [] r = "B" -> [s EXCEPT !.bc = SetHi(s.bc, v)]
      [] r = "C" -> [s EXCEPT !.bc = SetLo(s.bc, v)]
      [] r = "D" -> [s EXCEPT !.de = SetHi(s.de, v)]
      [] r = "E" -> [s EXCEPT !.de = SetLo(s.de, v)]
      [] r = "H" -> [s EXCEPT !.hl = SetHi(s.hl, v)]
      [] r = "L" -> [s EXCEPT !.hl = SetLo(s.hl, v)]
      [] r = "IXH" -> [s EXCEPT !.ix = SetHi(s.ix, v)]
      [] r = "IXL" -> [s EXCEPT !.ix = SetLo(s.ix, v)]
      [] r = "IYH" -> [s EXCEPT !.iy = SetHi(s.iy, v)]
      [] r = "IYL" -> [s EXCEPT !.iy = SetLo(s.iy, v)]
      [] OTHER -> s

\* II, IH, IL for the Reg* idx ("ix" or "iy") of z80StepIndex.
II(s, idx) == s[idx]
SetII(s, idx, v) == [s EXCEPT ![idx] = U16(v)]
IH(idx) == IF idx = "ix" THEN "IXH" ELSE "IYH"
IL(idx) == IF idx = "ix" THEN "IXL" ELSE "IYL"

\* The tables z80Init fills.
RECURSIVE OddBits(_)
OddBits(x) == IF x = 0 THEN 0 ELSE ((x % 2) + OddBits(x \div 2)) % 2

gParity(i) == IF OddBits(i) = 1 THEN 0 ELSE F_PARITY
gSZ53(i) == BitOr(BitAnd(i, 168), IF i = 0 THEN F_ZERO ELSE 0)
gSZ53P(i) == BitOr(gSZ53(i), gParity(i))

kHalfCarryAdd == <<0, 16, 16, 16, 0, 0, 0, 16>>
kHalfCarrySub == <<0, 0, 16, 0, 16, 0, 16, 16>>
kOverflowAdd == <<0, 0, 0, 4, 4, 0, 0, 0>>
\* kOverflowSub with the entries of kOverflowAdd.
kOverflowSub_AsAdd == <<0, 0, 0, 4, 4, 0, 0, 0>>
kOverflowSub == <<0, 4, 0, 0, 0, 0, 4, 0>>

\* The index the ALU functions build from one bit of each operand and of the
\* result: bit n of a in bit 0, of b in bit 1, of t in bit 2.
Lookup(a, b, t, n) == Bit(a, n) + 2 * Bit(b, n) + 4 * Bit(t, n)

RECURSIVE OrAll(_)
OrAll(xs) == IF xs = <<>> THEN 0 ELSE BitOr(Head(xs), OrAll(Tail(xs)))

z80SetFlag(s, flags, value) ==
    IF value THEN SetF(s, BitOr(F(s), flags)) ELSE SetF(s, BitAnd(F(s), 255 - flags))

z80Exx(s) ==
    [s EXCEPT !.bc = s.bc_, !.bc_ = s.bc, !.de = s.de_, !.de_ = s.de,
              !.hl = s.hl_, !.hl_ = s.hl]

z80ExAfAf(s) == [s EXCEPT !.af = s.af_, !.af_ = s.af]

\* The functions that take a u8* and change what it points at are given the byte
\* and return the new byte v and the new flags f.
z80IncReg(s, x) ==
    LET reg == U8(x + 1)
    IN  [v |-> reg,
         f |-> OrAll(<<BitAnd(F(s), F_CARRY),
                       IF reg = 128 THEN F_PARITY ELSE 0,
                       IF BitAnd(reg, 15) # 0 THEN 0 ELSE F_HALF,
                       gSZ53(reg)>>)]

z80DecReg(s, x) ==
    LET f1 == OrAll(<<BitAnd(F(s), F_CARRY),
                      IF BitAnd(x, 15) # 0 THEN 0 ELSE F_HALF, F_NEG>>)
        reg == U8(x - 1)
    IN  [v |-> reg,
         f |-> OrAll(<<f1, IF reg = 127 THEN F_PARITY ELSE 0, gSZ53(reg)>>)]

\* z80AddReg16 returns the new *r1 and the new flags.
z80AddReg16(s, r1, r2) ==
    LET add == r1 + r2
        x == Lookup(r1, r2, add, 11)
    IN  [v |-> U16(add),
         f |-> OrAll(<<BitAnd(F(s), 196),
                       IF Bit(add, 16) = 1 THEN F_CARRY ELSE 0,
                       BitAnd(add \div 256, 40),
                       kHalfCarryAdd[x + 1]>>)]

z80AddReg8(s, r) ==
    LET t == A(s) + r
        a == U8(t)
    IN  SetAF8(s, a, OrAll(<<IF Bit(t, 8) = 1 THEN F_CARRY ELSE 0,
                             kHalfCarryAdd[Lookup(A(s), r, t, 3) + 1],
                             kOverflowAdd[Lookup(A(s), r, t, 7) + 1],
                             gSZ53(a)>>))

\* z80AdcReg16 that sets Z from the high byte of the result.
z80AdcReg16_HighZero(s, r) ==
    LET t == s.hl + r + BitAnd(F(s), F_CARRY)
        hl == U16(t)
        f == OrAll(<<IF Bit(t, 16) = 1 THEN F_CARRY ELSE 0,
                     kOverflowAdd[Lookup(s.hl, r, t, 15) + 1],
                     BitAnd(HI(hl), 168),
                     kHalfCarryAdd[Lookup(s.hl, r, t, 11) + 1],
                     IF HI(hl) # 0 THEN 0 ELSE F_ZERO>>)
    IN  [s EXCEPT !.m = U16(s.hl + 1), !.hl = hl, !.af = SetLo(s.af, f)]

z80AdcReg16(s, r) ==
    LET t == s.hl + r + BitAnd(F(s), F_CARRY)
        hl == U16(t)
        f == OrAll(<<IF Bit(t, 16) = 1 THEN F_CARRY ELSE 0,
                     kOverflowAdd[Lookup(s.hl, r, t, 15) + 1],
                     BitAnd(HI(hl), 168),
                     kHalfCarryAdd[Lookup(s.hl, r, t, 11) + 1],
                     IF hl # 0 THEN 0 ELSE F_ZERO>>)
    IN  [s EXCEPT !.m = U16(s.hl + 1), !.hl = hl, !.af = SetLo(s.af, f)]

z80AdcReg8(s, r) ==
    LET t == A(s) + r + BitAnd(F(s), F_CARRY)
        a == U8(t)
    IN  SetAF8(s, a, OrAll(<<IF Bit(t, 8) = 1 THEN F_CARRY ELSE 0,
                             kHalfCarryAdd[Lookup(A(s), r, t, 3) + 1],
                             kOverflowAdd[Lookup(A(s), r, t, 7) + 1],
                             gSZ53(a)>>))

z80SubReg8(s, r) ==
    LET t == U16(A(s) - r)
        a == U8(t)
    IN  SetAF8(s, a, OrAll(<<IF Bit(t, 8) = 1 THEN F_CARRY ELSE 0, F_NEG,
                             kHalfCarrySub[Lookup(A(s), r, t, 3) + 1],
                             kOverflowSub[Lookup(A(s), r, t, 7) + 1],
                             gSZ53(a)>>))

z80SbcReg8(s, r) ==
    LET t == U16(A(s) - r - BitAnd(F(s), F_CARRY))
        a == U8(t)
    IN  SetAF8(s, a, OrAll(<<IF Bit(t, 8) = 1 THEN F_CARRY ELSE 0, F_NEG,
                             kHalfCarrySub[Lookup(A(s), r, t, 3) + 1],
                             kOverflowSub[Lookup(A(s), r, t, 7) + 1],
                             gSZ53(a)>>))

z80SbcReg16(s, r) ==
    LET t == (s.hl - r - BitAnd(F(s), F_CARRY)) % 131072   \* the u32's bits 0 .. 16
        hl == U16(t)
        f == OrAll(<<IF Bit(t, 16) = 1 THEN F_CARRY ELSE 0, F_NEG,
                     kOverflowSub[Lookup(s.hl, r, t, 15) + 1],
                     BitAnd(HI(hl), 168),
                     kHalfCarrySub[Lookup(s.hl, r, t, 11) + 1],
                     IF hl # 0 THEN 0 ELSE F_ZERO>>)
    IN  [s EXCEPT !.m = U16(s.hl + 1), !.hl = hl, !.af = SetLo(s.af, f)]

z80CpReg8(s, r) ==
    LET t == U16(A(s) - r)
    IN  SetF(s, OrAll(<<IF Bit(t, 8) = 1 THEN F_CARRY
                        ELSE (IF t # 0 THEN 0 ELSE F_ZERO),
                        F_NEG,
                        kHalfCarrySub[Lookup(A(s), r, t, 3) + 1],
                        kOverflowSub[Lookup(A(s), r, t, 7) + 1],
                        BitAnd(r, 40),
                        BitAnd(U8(t), F_SIGN)>>))

z80AndReg8(s, r) ==
    LET a == BitAnd(A(s), r) IN SetAF8(s, a, BitOr(F_HALF, gSZ53P(a)))

z80OrReg8(s, r) ==
    LET a == BitOr(A(s), r) IN SetAF8(s, a, gSZ53P(a))

z80XorReg8(s, r) ==
    LET a == BitXor(A(s), r) IN SetAF8(s, a, gSZ53P(a))

z80RlcReg8(s, x) ==
    LET r == U8(2 * x + (x \div 128))
    IN  [v |-> r, f |-> BitOr(BitAnd(r, F_CARRY), gSZ53P(r))]

z80RrcReg8(s, x) ==
    LET r == U8((x \div 2) + 128 * (x % 2))
    IN  [v |-> r, f |-> BitOr(BitAnd(x, F_CARRY), gSZ53P(r))]

z80RlReg8(s, x) ==
    LET r == U8(BitOr(2 * x, BitAnd(F(s), F_CARRY)))
    IN  [v |-> r, f |-> BitOr(x \div 128, gSZ53P(r))]

z80RrReg8(s, x) ==
    LET r == U8(BitOr(x \div 2, F(s) * 128))
    IN  [v |-> r, f |-> BitOr(BitAnd(x, F_CARRY), gSZ53P(r))]

z80SlaReg8(s, x) ==
    LET r == U8(2 * x)
    IN  [v |-> r, f |-> BitOr(x \div 128, gSZ53P(r))]

z80SraReg8(s, x) ==
    LET r == BitOr(BitAnd(x, 128), x \div 2)
    IN  [v |-> r, f |-> BitOr(BitAnd(x, F_CARRY), gSZ53P(r))]

\* z80Sl1Reg8 that shifts a 0 into bit 0.
z80Sl1Reg8_Zero(s, x) ==
    LET r == U8(2 * x)
    IN  [v |-> r, f |-> BitOr(x \div 128, gSZ53P(r))]

z80Sl1Reg8(s, x) ==
    LET r == U8(BitOr(2 * x, 1))
    IN  [v |-> r, f |-> BitOr(x \div 128, gSZ53P(r))]

z80SrlReg8(s, x) ==
    LET r == x \div 2
    IN  [v |-> r, f |-> BitOr(BitAnd(x, F_CARRY), gSZ53P(r))]

\* z80BitReg8 and z80BitReg8_MP return the new flags.
z80BitReg8(s, x, b) ==
    OrAll(<<BitAnd(F(s), F_CARRY), F_HALF, BitAnd(x, 40),
            IF Bit(x, b) = 0 THEN F_PARITY + F_ZERO ELSE 0,
            IF b = 7 /\ Bit(x, 7) = 1 THEN F_SIGN ELSE 0>>)

\* z80BitReg8_MP that takes bits 3 and 5 from the operand.
z80BitReg8_MP_Operand(s, x, b) ==
    OrAll(<<BitAnd(F(s), F_CARRY), F_HALF, BitAnd(x, 40),
            IF Bit(x, b) = 0 THEN F_PARITY + F_ZERO ELSE 0,
            IF b = 7 /\ Bit(x, 7) = 1 THEN F_SIGN ELSE 0>>)

z80BitReg8_MP(s, x, b) ==
    OrAll(<<BitAnd(F(s), F_CARRY), F_HALF, BitAnd(HI(s.m), 40),
            IF Bit(x, b) = 0 THEN F_PARITY + F_ZERO ELSE 0,
            IF b = 7 /\ Bit(x, 7) = 1 THEN F_SIGN ELSE 0>>)

z80ResReg8(x, b) == BitAnd(x, 255 - (2 ^ b))
z80SetReg8(x, b) == BitOr(x, 2 ^ b)

\* z80Daa that leaves the carry flag as the addition or subtraction of the
\* adjustment set it.
z80Daa_AluCarry(s) ==
    LET result == A(s)
        f0 == F(s)
        lowIncr == IF BitAnd(f0, F_HALF) # 0 \/ BitAnd(result, 15) > 9 THEN 6 ELSE 0
        carry0 == BitAnd(f0, F_CARRY) # 0
        highIncr == IF carry0 \/ result > 159 \/ (result > 143 /\ BitAnd(result, 15) > 9)
                    THEN 96 ELSE 0
        incr == BitOr(lowIncr, highIncr)
        s1 == IF BitAnd(f0, F_NEG) # 0 THEN z80SubReg8(s, incr) ELSE z80AddReg8(s, incr)
    IN  z80SetFlag(s1, F_PARITY, gParity(A(s1)) # 0)

z80Daa(s) ==
    LET result == A(s)
        f0 == F(s)
        lowIncr == IF BitAnd(f0, F_HALF) # 0 \/ BitAnd(result, 15) > 9 THEN 6 ELSE 0
        carry0 == BitAnd(f0, F_CARRY) # 0
        highIncr == IF carry0 \/ result > 159 \/ (result > 143 /\ BitAnd(result, 15) > 9)
                    THEN 96 ELSE 0
        incr == BitOr(lowIncr, highIncr)
        carry == carry0 \/ result > 153
        s1 == IF BitAnd(f0, F_NEG) # 0 THEN z80SubReg8(s, incr) ELSE z80AddReg8(s, incr)
        s2 == z80SetFlag(s1, F_CARRY, carry)
    IN  z80SetFlag(s2, F_PARITY, gParity(A(s1)) # 0)

z80Displacement(x) == BitXor(128, x) - 128

z80PopValue(s) == memoryPeek16Value(s, s.sp)
z80Pop(s) ==
    LET s1 == memoryPeek16(s, s.sp)
    IN  [s1 EXCEPT !.sp = U16(s.sp + 2)]

\* z80Push that stores the low byte at SP-2 before the high byte at SP-1.
z80Push_LowFirst(s, x) ==
    LET sp1 == U16(s.sp - 1)
        sp2 == U16(s.sp - 2)
        s1 == memoryPoke([s EXCEPT !.sp = sp2], sp2, LO(U16(x)))
    IN  memoryPoke(s1, sp1, HI(U16(x)))

z80Push(s, x) ==
    LET sp1 == U16(s.sp - 1)
        sp2 == U16(s.sp - 2)
        s1 == memoryPoke([s EXCEPT !.sp = sp1], sp1, HI(U16(x)))
    IN  memoryPoke([s1 EXCEPT !.sp = sp2], sp2, LO(U16(x)))

z80GetReg(y) ==
    CASE y = 0 -> "B" [] y = 1 -> "C" [] y = 2 -> "D" [] y = 3 -> "E"
      [] y = 4 -> "H" [] y = 5 -> "L" [] y = 7 -> "A"
      [] OTHER -> "null"

z80GetReg16_1(p) ==
    CASE p = 0 -> "bc" [] p = 1 -> "de" [] p = 2 -> "hl" [] p = 3 -> "sp"

z80GetReg16_2(p) ==
    CASE p = 0 -> "bc" [] p = 1 -> "de" [] p = 2 -> "hl" [] p = 3 -> "af"

z80GetFlag(y, flags) ==
    CASE y = 0 -> BitAnd(flags, F_ZERO) = 0
      [] y = 1 -> BitAnd(flags, F_ZERO) # 0
      [] y = 2 -> BitAnd(flags, F_CARRY) = 0
      [] y = 3 -> BitAnd(flags, F_CARRY) # 0
      [] y = 4 -> BitAnd(flags, F_PARITY) = 0
      [] y = 5 -> BitAnd(flags, F_PARITY) # 0
      [] y = 6 -> BitAnd(flags, F_SIGN) = 0
      [] y = 7 -> BitAnd(flags, F_SIGN) # 0
      [] OTHER -> TRUE

\* z80GetAlu(y)(Z, &r) with *r = r.
z80GetAlu(s, y, r) ==
    CASE y = 0 -> z80AddReg8(s, r)
      [] y = 1 -> z80AdcReg8(s, r)
      [] y = 2 -> z80SubReg8(s, r)
      [] y = 3 -> z80SbcReg8(s, r)
      [] y = 4 -> z80AndReg8(s, r)
      [] y = 5 -> z80XorReg8(s, r)
      [] y = 6 -> z80OrReg8(s, r)
      [] y = 7 -> z80CpReg8(s, r)

\* z80GetRotateShift(y)(Z, &r) with *r = x: the new byte and the new flags.
z80GetRotateShift(s, y, x) ==
    CASE y = 0 -> z80RlcReg8(s, x)
      [] y = 1 -> z80RrcReg8(s, x)
      [] y = 2 -> z80RlReg8(s, x)
      [] y = 3 -> z80RrReg8(s, x)
      [] y = 4 -> z80SlaReg8(s, x)
      [] y = 5 -> z80SraReg8(s, x)
      [] y = 6 -> z80Sl1Reg8(s, x)
      [] y = 7 -> z80SrlReg8(s, x)

\* PEEK, POKE, PEEK16, POKE16, CONTEND of the interpreter are memoryPeek,
\* memoryPoke, memoryPeek16, memoryPoke16 and memoryContend on the machine record.
\* The fields of an opcode.
DecodeX(opCode) == opCode \div 64
DecodeY(opCode) == (opCode \div 8) % 8
DecodeZ(opCode) == opCode % 8
DecodeP(opCode) == DecodeY(opCode) \div 2
DecodeQ(opCode) == DecodeY(opCode) % 2

\* z80FetchInstruction: ++R on the u8, the M1 contention, the read at PC++.
z80FetchValue(s) == MemRead(s.mem, s.pc)
z80FetchInstruction(s) ==
    LET r1 == U8(R(s) + 1)
        s1 == memoryContend([s EXCEPT !.ir = SetLo(s.ir, r1),
                                      !.fetches = Append(s.fetches, <<R(s), r1>>)],
                            s.pc, 4, 1)
        s2 == memoryPeekNoContend(s1, s.pc)
    IN  [s2 EXCEPT !.pc = U16(s.pc + 1)]

-----------------------------------------------------------------------------
(* The I/O decoder's timing, after section 4.2 of the specification: one   *)
(* T-state of address set-up, contended when the port address is in        *)
(* contended RAM, then three T-states of data phase, contended as one      *)
(* access of 3 for a ULA port (bit 0 clear), as three accesses of 1 for    *)
(* another port with a contended address, and not at all otherwise.        *)

\* The ULA's own contention: the table applies whatever the address.
UlaContend(s, delay) ==
    [s EXCEPT !.t = s.t + TableRead(s.t, s.ub) + delay,
              !.reads = Append(s.reads, s.t)]

ioContend(s, port) ==
    LET s1 == IF IsContended(port) THEN memoryContend(s, port, 1, 1)
              ELSE [s EXCEPT !.t = s.t + 1]
    IN  IF port % 2 = 0
        THEN (IF IsContended(port) THEN memoryContend(s1, port, 3, 1)
              ELSE UlaContend(s1, 3))
        ELSE (IF IsContended(port) THEN memoryContend(s1, port, 1, 3)
              ELSE [s1 EXCEPT !.t = s1.t + 3])

ioInValue(s, port) == s.inb
ioIn(s, port) ==
    LET s1 == ioContend(s, port)
    IN  [s1 EXCEPT !.log = Append(s1.log, <<"PR", s1.t, port, s.inb>>)]

ioOut(s, port, b) ==
    LET s1 == ioContend(s, port)
    IN  [s1 EXCEPT !.log = Append(s1.log, <<"PW", s1.t, port, U8(b)>>)]

-----------------------------------------------------------------------------
(* z80Execute, by the x field of the opcode.                               *)

\* d = z80Displacement(PEEK(PC)); CONTEND(PC, 1, 5); PC += (i8)(d + 1); MP = PC
\* with d a u8.
JumpRelative(s) ==
    LET d == U8(z80Displacement(memoryPeekValue(s, s.pc)))
        s1 == memoryContend(memoryPeek(s, s.pc), s.pc, 1, 5)
        pc == U16(s.pc + I8(d + 1))
    IN  [s1 EXCEPT !.pc = pc, !.m = pc]

\* CONTEND(PC, 3, 1); ++PC
SkipRelative(s) ==
    LET s1 == memoryContend(s, s.pc, 3, 1)
    IN  [s1 EXCEPT !.pc = U16(s.pc + 1)]

z80ExecuteX0Z0(s, y) ==
    CASE y = 0 -> s
      [] y = 1 -> z80ExAfAf(s)
      [] y = 2 ->
            LET s1 == SetB(memoryContend(s, s.ir, 1, 1), B(s) - 1)
            IN  IF B(s1) # 0 THEN JumpRelative(s1) ELSE SkipRelative(s1)
      [] y = 3 -> JumpRelative(s)
      [] OTHER -> IF z80GetFlag(y - 4, F(s)) THEN JumpRelative(s) ELSE SkipRelative(s)

z80ExecuteX0Z1(s, p, q) ==
    IF q = 0
    THEN LET rr == z80GetReg16_1(p)
             w == memoryPeek16Value(s, s.pc)
             s1 == memoryPeek16(s, s.pc)
             s2 == [s1 EXCEPT ![rr] = w]
         IN  [s2 EXCEPT !.pc = U16(s2.pc + 2)]
    ELSE LET s1 == memoryContend(s, s.ir, 1, 7)
             s2 == [s1 EXCEPT !.m = U16(s.hl + 1)]
             r == z80AddReg16(s2, s2.hl, s2[z80GetReg16_1(p)])
         IN  [s2 EXCEPT !.hl = r.v, !.af = SetLo(s2.af, r.f)]

z80ExecuteX0Z2(s, y) ==
    CASE y = 0 ->
            LET s1 == memoryPoke(s, s.bc, A(s))
            IN  [s1 EXCEPT !.m = BitOr(BitAnd(s.bc + 1, 255), A(s) * 256)]
      [] y = 1 ->
            LET s1 == memoryPeek(s, s.bc)
            IN  [s1 EXCEPT !.af = SetHi(s.af, memoryPeekValue(s, s.bc)),
                           !.m = U16(s.bc + 1)]
      [] y = 2 ->
            LET s1 == memoryPoke(s, s.de, A(s))
            IN  [s1 EXCEPT !.m = BitOr(BitAnd(s.de + 1, 255), A(s) * 256)]
      [] y = 3 ->
            LET s1 == memoryPeek(s, s.de)
            IN  [s1 EXCEPT !.af = SetHi(s.af, memoryPeekValue(s, s.de)),
                           !.m = U16(s.de + 1)]
      [] y = 4 ->
            LET tt == memoryPeek16Value(s, s.pc)
                s1 == memoryPoke16(memoryPeek16(s, s.pc), tt, s.hl)
            IN  [s1 EXCEPT !.m = U16(tt + 1), !.pc = U16(s.pc + 2)]
      [] y = 5 ->
            LET tt == memoryPeek16Value(s, s.pc)
                s1 == memoryPeek16(s, s.pc)
                s2 == memoryPeek16(s1, tt)
            IN  [s2 EXCEPT !.hl = memoryPeek16Value(s1, tt),
                           !.pc = U16(s.pc + 2), !.m = U16(tt + 1)]
      [] y = 6 ->
            LET tt == memoryPeek16Value(s, s.pc)
                s1 == memoryPeek16(s, s.pc)
                s2 == memoryPoke([s1 EXCEPT !.pc = U16(s.pc + 2)], tt, A(s))
            IN  [s2 EXCEPT !.m = 256 * A(s) + U8(tt + 1)]
      [] y = 7 ->
            LET tt == memoryPeek16Value(s, s.pc)
                s1 == memoryPeek16(s, s.pc)
                s2 == memoryPeek([s1 EXCEPT !.m = U16(tt + 1)], tt)
            IN  [s2 EXCEPT !.af = SetHi(s.af, memoryPeekValue(s1, tt)),
                           !.pc = U16(s.pc + 2)]

z80ExecuteX0Z3(s, p, q) ==
    LET rr == z80GetReg16_1(p)
        s1 == memoryContend(s, s.ir, 1, 2)
    IN  IF q = 0 THEN [s1 EXCEPT ![rr] = U16(s[rr] + 1)]
        ELSE [s1 EXCEPT ![rr] = U16(s[rr] - 1)]

\* INC (z = 4) and DEC (z = 5) of a register or of (HL).
z80ExecuteX0Z45(s, y, z) ==
    IF y = 6
    THEN LET d == memoryPeekValue(s, s.hl)
             s1 == memoryContend(memoryPeek(s, s.hl), s.hl, 1, 1)
             r == IF z = 4 THEN z80IncReg(s1, d) ELSE z80DecReg(s1, d)
         IN  memoryPoke(SetF(s1, r.f), s.hl, r.v)
    ELSE LET ref == z80GetReg(y)
             r == IF z = 4 THEN z80IncReg(s, RefGet(s, ref))
                  ELSE z80DecReg(s, RefGet(s, ref))
         IN  RefSet(SetF(s, r.f), ref, r.v)

z80ExecuteX0Z6(s, y) ==
    LET n == memoryPeekValue(s, s.pc)
        s1 == memoryPeek(s, s.pc)
        s2 == [s1 EXCEPT !.pc = U16(s.pc + 1)]
    IN  IF y = 6 THEN memoryPoke(s2, s2.hl, n)
        ELSE RefSet(s2, z80GetReg(y), n)

z80ExecuteX0Z7(s, y) ==
    LET a == A(s)
        f == F(s)
        keep == BitAnd(f, 196)
    IN  CASE y = 0 ->
                LET a1 == U8(2 * a + (a \div 128))
                IN  SetAF8(s, a1, BitOr(keep, BitAnd(a1, 41)))
          [] y = 1 ->
                LET a1 == U8((a \div 2) + 128 * (a % 2))
                IN  SetAF8(s, a1, OrAll(<<keep, BitAnd(a, F_CARRY), BitAnd(a1, 40)>>))
          [] y = 2 ->
                LET a1 == U8(BitOr(2 * a, BitAnd(f, F_CARRY)))
                IN  SetAF8(s, a1, OrAll(<<keep, BitAnd(a1, 40), a \div 128>>))
          [] y = 3 ->
                LET a1 == U8(BitOr(a \div 2, f * 128))
                IN  SetAF8(s, a1, OrAll(<<keep, BitAnd(a1, 40), BitAnd(a, F_CARRY)>>))
          [] y = 4 -> z80Daa(s)
          [] y = 5 ->
                LET a1 == BitXor(a, 255)
                IN  SetAF8(s, a1, OrAll(<<BitAnd(f, 197), BitAnd(a1, 40), F_NEG, F_HALF>>))
          [] y = 6 -> SetF(s, OrAll(<<keep, BitAnd(a, 40), F_CARRY>>))
          [] y = 7 ->
                SetF(s, OrAll(<<keep, BitAnd(a, 40),
                                IF BitAnd(f, F_CARRY) # 0 THEN F_HALF ELSE F_CARRY>>))

z80ExecuteX0(s, opCode) ==
    LET y == DecodeY(opCode)
        z == DecodeZ(opCode)
        p == DecodeP(opCode)
        q == DecodeQ(opCode)
    IN  CASE z = 0 -> z80ExecuteX0Z0(s, y)
          [] z = 1 -> z80ExecuteX0Z1(s, p, q)
          [] z = 2 -> z80ExecuteX0Z2(s, y)
          [] z = 3 -> z80ExecuteX0Z3(s, p, q)
          [] z = 4 -> z80ExecuteX0Z45(s, y, z)
          [] z = 5 -> z80ExecuteX0Z45(s, y, z)
          [] z = 6 -> z80ExecuteX0Z6(s, y)
          [] z = 7 -> z80ExecuteX0Z7(s, y)

\* z80Execute's x = 1 with a HALT that leaves PC behind the opcode.
z80ExecuteX1_HaltAdvances(s, opCode) ==
    LET y == DecodeY(opCode)
        z == DecodeZ(opCode)
    IN  IF z = 6 /\ y = 6
        THEN [s EXCEPT !.halt = TRUE]
        ELSE IF y = 6
        THEN memoryPoke(s, s.hl, RefGet(s, z80GetReg(z)))
        ELSE IF z = 6
        THEN RefSet(memoryPeek(s, s.hl), z80GetReg(y), memoryPeekValue(s, s.hl))
        ELSE RefSet(s, z80GetReg(y), RefGet(s, z80GetReg(z)))

z80ExecuteX1(s, opCode) ==
    LET y == DecodeY(opCode)
        z == DecodeZ(opCode)
    IN  IF z = 6 /\ y = 6
        THEN [s EXCEPT !.halt = TRUE, !.pc = U16(s.pc - 1)]
        ELSE IF y = 6
        THEN memoryPoke(s, s.hl, RefGet(s, z80GetReg(z)))
        ELSE IF z = 6
        THEN RefSet(memoryPeek(s, s.hl), z80GetReg(y), memoryPeekValue(s, s.hl))
        ELSE RefSet(s, z80GetReg(y), RefGet(s, z80GetReg(z)))

z80ExecuteX2(s, opCode) ==
    LET y == DecodeY(opCode)
        z == DecodeZ(opCode)
    IN  IF z = 6
        THEN z80GetAlu(memoryPeek(s, s.hl), y, memoryPeekValue(s, s.hl))
        ELSE z80GetAlu(s, y, RefGet(s, z80GetReg(z)))

\* The CB page: the second opcode fetch and the rotate, BIT, RES or SET.
z80ExecuteCB(s) ==
    LET opCode == z80FetchValue(s)
        s0 == z80FetchInstruction(s)
        x == DecodeX(opCode)
        y == DecodeY(opCode)
        z == DecodeZ(opCode)
        d == memoryPeekValue(s0, s0.hl)
        s1 == memoryContend(memoryPeek(s0, s0.hl), s0.hl, 1, 1)
        ref == z80GetReg(z)
        b == RefGet(s0, ref)
    IN  CASE x = 0 ->
                IF z = 6
                THEN LET r == z80GetRotateShift(s1, y, d)
                     IN  memoryPoke(SetF(s1, r.f), s0.hl, r.v)
                ELSE LET r == z80GetRotateShift(s0, y, b)
                     IN  RefSet(SetF(s0, r.f), ref, r.v)
          [] x = 1 ->
                IF z = 6 THEN SetF(s1, z80BitReg8_MP(s1, d, y))
                ELSE SetF(s0, z80BitReg8(s0, b, y))
          [] x = 2 ->
                IF z = 6 THEN memoryPoke(s1, s0.hl, z80ResReg8(d, y))
                ELSE RefSet(s0, ref, z80ResReg8(b, y))
          [] x = 3 ->
                IF z = 6 THEN memoryPoke(s1, s0.hl, z80SetReg8(d, y))
                ELSE RefSet(s0, ref, z80SetReg8(b, y))

\* CONTEND(PC + 1, 1, 1); z80Push(Z, PC + 2, tState); PC = tt
CallTo(s, tt) ==
    LET s1 == z80Push(memoryContend(s, U16(s.pc + 1), 1, 1), U16(s.pc + 2))
    IN  [s1 EXCEPT !.pc = tt]

z80ExecuteX3Z1(s, p, q) ==
    IF q = 0
    THEN LET w == z80PopValue(s)
         IN  [z80Pop(s) EXCEPT ![z80GetReg16_2(p)] = w]
    ELSE CASE p = 0 ->
                LET w == z80PopValue(s)
                IN  [z80Pop(s) EXCEPT !.pc = w, !.m = w]
           [] p = 1 -> z80Exx(s)
           [] p = 2 -> [s EXCEPT !.pc = s.hl]
           [] p = 3 -> [memoryContend(s, s.ir, 1, 1) EXCEPT !.sp = s.hl]

z80ExecuteX3Z3(s, y) ==
    CASE y = 0 ->
            LET w == memoryPeek16Value(s, s.pc)
            IN  [memoryPeek16(s, s.pc) EXCEPT !.pc = w, !.m = w]
      [] y = 1 -> z80ExecuteCB(s)
      [] y = 2 ->
            LET d == memoryPeekValue(s, s.pc)
                s1 == ioOut(memoryPeek(s, s.pc), d + 256 * A(s), A(s))
            IN  [s1 EXCEPT !.m = 256 * A(s) + U8(d + 1), !.pc = U16(s.pc + 1)]
      [] y = 3 ->
            LET d == memoryPeekValue(s, s.pc)
                tt == 256 * A(s) + d
                s1 == [memoryPeek(s, s.pc) EXCEPT !.m = 256 * A(s) + U8(d + 1)]
                s2 == ioIn(s1, tt)
            IN  [s2 EXCEPT !.af = SetHi(s.af, ioInValue(s1, tt)), !.pc = U16(s.pc + 1)]
      [] y = 4 ->
            LET tt == memoryPeek16Value(s, s.sp)
                s1 == memoryContend(memoryPeek16(s, s.sp), U16(s.sp + 1), 1, 1)
                s2 == memoryPoke(s1, U16(s.sp + 1), H(s))
                s3 == memoryContend(memoryPoke(s2, s.sp, L(s)), s.sp, 1, 2)
            IN  [s3 EXCEPT !.hl = tt, !.m = tt]
      [] y = 5 -> [s EXCEPT !.de = s.hl, !.hl = s.de]
      [] y = 6 -> [s EXCEPT !.iff1 = FALSE, !.iff2 = FALSE]
      [] y = 7 -> [s EXCEPT !.iff1 = TRUE, !.iff2 = TRUE, !.lastOpcodeWasEI = TRUE]

z80ExecuteX3Z5(s, p, q) ==
    IF q = 0
    THEN z80Push(memoryContend(s, s.ir, 1, 1), s[z80GetReg16_2(p)])
    ELSE CASE p = 0 ->
                LET tt == memoryPeek16Value(s, s.pc)
                    s1 == [memoryPeek16(s, s.pc) EXCEPT !.m = tt]
                IN  CallTo(s1, tt)
           [] p = 1 -> [s EXCEPT !.pos = "ix"]
           [] p = 2 -> [s EXCEPT !.pos = "ed"]
           [] p = 3 -> [s EXCEPT !.pos = "iy"]

z80ExecuteX3(s, opCode) ==
    LET y == DecodeY(opCode)
        z == DecodeZ(opCode)
        p == DecodeP(opCode)
        q == DecodeQ(opCode)
    IN  CASE z = 0 ->
                LET s1 == memoryContend(s, s.ir, 1, 1)
                    w == z80PopValue(s1)
                IN  IF z80GetFlag(y, F(s)) THEN [z80Pop(s1) EXCEPT !.pc = w, !.m = w]
                    ELSE s1
          [] z = 1 -> z80ExecuteX3Z1(s, p, q)
          [] z = 2 ->
                LET tt == memoryPeek16Value(s, s.pc)
                    s1 == memoryPeek16(s, s.pc)
                IN  [s1 EXCEPT !.pc = IF z80GetFlag(y, F(s)) THEN tt ELSE U16(s.pc + 2),
                               !.m = tt]
          [] z = 3 -> z80ExecuteX3Z3(s, y)
          [] z = 4 ->
                LET tt == memoryPeek16Value(s, s.pc)
                    s1 == [memoryPeek16(s, s.pc) EXCEPT !.m = tt]
                IN  IF z80GetFlag(y, F(s)) THEN CallTo(s1, tt)
                    ELSE [s1 EXCEPT !.pc = U16(s.pc + 2)]
          [] z = 5 -> z80ExecuteX3Z5(s, p, q)
          [] z = 6 ->
                LET d == memoryPeekValue(s, s.pc)
                    s1 == [memoryPeek(s, s.pc) EXCEPT !.pc = U16(s.pc + 1)]
                IN  z80GetAlu(s1, y, d)
          [] z = 7 ->
                LET s1 == z80Push(memoryContend(s, s.ir, 1, 1), s.pc)
                IN  [s1 EXCEPT !.pc = y * 8, !.m = y * 8]

\* z80Execute leaves pos at "ix", "iy" or "ed" where the code calls z80StepIndex or
\* z80StepED, which then run as the step's next part.
z80Execute(s, opCode) ==
    LET x == DecodeX(opCode)
    IN  CASE x = 0 -> z80ExecuteX0(s, opCode)
          [] x = 1 -> z80ExecuteX1(s, opCode)
          [] x = 2 -> z80ExecuteX2(s, opCode)
          [] x = 3 -> z80ExecuteX3(s, opCode)

-----------------------------------------------------------------------------
(* z80StepIndexCB and z80StepIndex: the DD and FD pages, idx the index     *)
(* register.                                                               *)

z80StepIndexCB(s, idx) ==
    LET sa == memoryPeekNoContend(memoryContend(s, s.pc, 3, 1), s.pc)
        mp == U16(II(s, idx) + I8(MemRead(s.mem, s.pc)))
        pc1 == U16(s.pc + 1)
        sb == memoryContend([sa EXCEPT !.m = mp, !.pc = pc1], pc1, 3, 1)
        opCode == MemRead(s.mem, pc1)
        sc == memoryContend(memoryPeekNoContend(sb, pc1), pc1, 1, 2)
        s0 == [sc EXCEPT !.pc = U16(pc1 + 1)]
        x == DecodeX(opCode)
        y == DecodeY(opCode)
        z == DecodeZ(opCode)
        ref == IF z = 6 THEN "v" ELSE z80GetReg(z)
        b == memoryPeekValue(s0, mp)
        s1 == memoryPeek(s0, mp)
    IN  CASE x = 0 ->
                LET s2 == memoryContend(s1, mp, 1, 1)
                    r == z80GetRotateShift(s2, y, b)
                IN  memoryPoke(RefSet(SetF(s2, r.f), ref, r.v), mp, r.v)
          [] x = 1 ->
                LET s2 == memoryContend(s1, mp, 1, 1)
                IN  SetF(s2, z80BitReg8_MP(s2, b, y))
          [] x = 2 ->
                LET v == z80ResReg8(b, y)
                IN  memoryPoke(memoryContend(RefSet(s1, ref, v), mp, 1, 1), mp, v)
          [] x = 3 ->
                LET v == z80SetReg8(b, y)
                IN  memoryPoke(memoryContend(RefSet(s1, ref, v), mp, 1, 1), mp, v)

\* d = PEEK(PC); CONTEND(PC, 1, 5); ++PC; MP = II + d, with d an i8.
IndexDisplacement(s, idx) ==
    LET d == I8(memoryPeekValue(s, s.pc))
        s1 == memoryContend(memoryPeek(s, s.pc), s.pc, 1, 5)
    IN  [s1 EXCEPT !.pc = U16(s.pc + 1), !.m = U16(II(s, idx) + d)]

\* What the switches of z80StepIndex and z80StepED give where the code jumps to
\* invalid_instruction; otherwise they give the machine after the instruction.
Invalid == [pos |-> "invalid"]

\* invalid_instruction that returns without z80Execute.
InvalidInstruction_Return(r, s0, opCode) ==
    IF r.pos = "invalid" THEN s0 ELSE r

\* invalid_instruction: z80Execute(Z, tState, opCode), reached when the switch
\* gave r = Invalid.
InvalidInstruction(r, s0, opCode) ==
    IF r.pos = "invalid" THEN z80Execute(s0, opCode) ELSE r

z80StepIndexX0(s, idx, opCode) ==
    LET y == DecodeY(opCode)
        z == DecodeZ(opCode)
        p == DecodeP(opCode)
        q == DecodeQ(opCode)
    IN  CASE z = 1 /\ q = 0 /\ p = 2 ->
                LET w == memoryPeek16Value(s, s.pc)
                IN  [memoryPeek16(s, s.pc) EXCEPT ![idx] = w, !.pc = U16(s.pc + 2)]
          [] z = 1 /\ q = 1 ->
                LET s1 == [memoryContend(s, s.ir, 1, 7) EXCEPT !.m = U16(II(s, idx) + 1)]
                    rr == IF z80GetReg16_1(p) = "hl" THEN idx ELSE z80GetReg16_1(p)
                    r == z80AddReg16(s1, II(s1, idx), s1[rr])
                IN  [s1 EXCEPT ![idx] = r.v, !.af = SetLo(s1.af, r.f)]
          [] z = 2 /\ p = 2 /\ q = 0 ->
                LET tt == memoryPeek16Value(s, s.pc)
                    s1 == memoryPoke16(memoryPeek16(s, s.pc), tt, II(s, idx))
                IN  [s1 EXCEPT !.m = U16(tt + 1), !.pc = U16(s.pc + 2)]
          [] z = 2 /\ p = 2 /\ q = 1 ->
                LET tt == memoryPeek16Value(s, s.pc)
                    s1 == memoryPeek16(s, s.pc)
                IN  [memoryPeek16(s1, tt) EXCEPT ![idx] = memoryPeek16Value(s1, tt),
                                                 !.pc = U16(s.pc + 2), !.m = U16(tt + 1)]
          [] z = 3 /\ p = 2 ->
                LET s1 == memoryContend(s, s.ir, 1, 2)
                IN  IF q = 0 THEN SetII(s1, idx, II(s, idx) + 1)
                    ELSE SetII(s1, idx, II(s, idx) - 1)
          [] z \in {4, 5} /\ y \in {4, 5} ->
                LET ref == IF y = 4 THEN IH(idx) ELSE IL(idx)
                    r == IF z = 4 THEN z80IncReg(s, RefGet(s, ref))
                         ELSE z80DecReg(s, RefGet(s, ref))
                IN  RefSet(SetF(s, r.f), ref, r.v)
          [] z \in {4, 5} /\ y = 6 ->
                LET s1 == IndexDisplacement(s, idx)
                    d == memoryPeekValue(s1, s1.m)
                    s2 == memoryContend(memoryPeek(s1, s1.m), s1.m, 1, 1)
                    r == IF z = 4 THEN z80IncReg(s2, d) ELSE z80DecReg(s2, d)
                IN  memoryPoke(SetF(s2, r.f), s1.m, r.v)
          [] z = 6 /\ y \in {4, 5} ->
                LET n == memoryPeekValue(s, s.pc)
                    s1 == [memoryPeek(s, s.pc) EXCEPT !.pc = U16(s.pc + 1)]
                IN  RefSet(s1, IF y = 4 THEN IH(idx) ELSE IL(idx), n)
          [] z = 6 /\ y = 6 ->
                LET d == I8(memoryPeekValue(s, s.pc))
                    pc1 == U16(s.pc + 1)
                    s1 == [memoryPeek(s, s.pc) EXCEPT !.pc = pc1]
                    v == memoryPeekValue(s1, pc1)
                    s2 == memoryContend(memoryPeek(s1, pc1), pc1, 1, 2)
                    mp == U16(II(s, idx) + d)
                IN  memoryPoke([s2 EXCEPT !.pc = U16(pc1 + 1), !.m = mp], mp, v)
          [] OTHER -> Invalid

z80StepIndexX1(s, idx, opCode) ==
    LET y == DecodeY(opCode)
        z == DecodeZ(opCode)
        sd == IndexDisplacement(s, idx)
    IN  CASE y = 6 /\ z = 6 -> Invalid
          [] y \in {4, 5} /\ z \in {4, 5} ->
                RefSet(s, IF y = 4 THEN IH(idx) ELSE IL(idx),
                       RefGet(s, IF z = 4 THEN IH(idx) ELSE IL(idx)))
          [] y \in {4, 5} /\ z = 6 ->
                RefSet(memoryPeek(sd, sd.m), z80GetReg(y), memoryPeekValue(sd, sd.m))
          [] y \in {4, 5} /\ z \in {0, 1, 2, 3, 7} ->
                RefSet(s, IF y = 4 THEN IH(idx) ELSE IL(idx), RefGet(s, z80GetReg(z)))
          [] y = 6 /\ z # 6 -> memoryPoke(sd, sd.m, RefGet(sd, z80GetReg(z)))
          [] y \in {0, 1, 2, 3, 7} /\ z \in {4, 5} ->
                RefSet(s, z80GetReg(y), RefGet(s, IF z = 4 THEN IH(idx) ELSE IL(idx)))
          [] y \in {0, 1, 2, 3, 7} /\ z = 6 ->
                RefSet(memoryPeek(sd, sd.m), z80GetReg(y), memoryPeekValue(sd, sd.m))
          [] OTHER -> Invalid

z80StepIndexX2(s, idx, opCode) ==
    LET y == DecodeY(opCode)
        z == DecodeZ(opCode)
        sd == IndexDisplacement(s, idx)
    IN  CASE z = 4 -> z80GetAlu(s, y, RefGet(s, IH(idx)))
          [] z = 5 -> z80GetAlu(s, y, RefGet(s, IL(idx)))
          [] z = 6 -> z80GetAlu(memoryPeek(sd, sd.m), y, memoryPeekValue(sd, sd.m))
          [] OTHER -> Invalid

z80StepIndexX3(s, idx, opCode) ==
    CASE opCode = 203 -> z80StepIndexCB(s, idx)
      [] opCode = 225 ->
            LET w == z80PopValue(s)
            IN  [z80Pop(s) EXCEPT ![idx] = w]
      [] opCode = 227 ->
            LET sp1 == U16(s.sp + 1)
                tl == memoryPeekValue(s, s.sp)
                th == memoryPeekValue(s, sp1)
                s1 == memoryContend(memoryPeek(memoryPeek(s, s.sp), sp1), sp1, 1, 1)
                s2 == memoryPoke(memoryPoke(s1, sp1, HI(s.ix)), s.sp, LO(s.ix))
                s3 == memoryContend(s2, s.sp, 1, 2)
            IN  [s3 EXCEPT ![idx] = 256 * th + tl, !.m = 256 * th + tl]
      [] opCode = 229 -> z80Push(memoryContend(s, s.ir, 1, 1), II(s, idx))
      [] opCode = 233 -> [s EXCEPT !.pc = II(s, idx)]
      [] opCode = 249 -> [memoryContend(s, s.ir, 1, 2) EXCEPT !.sp = II(s, idx)]
      [] OTHER -> Invalid

\* z80StepIndex that stays with its index register when the byte it fetches is
\* another prefix DD or FD.
z80StepIndex_FirstPrefix(s, idx) ==
    LET opCode == z80FetchValue(s)
        s0 == z80FetchInstruction([s EXCEPT !.pos = "idle"])
        x == DecodeX(opCode)
        r == CASE x = 0 -> z80StepIndexX0(s0, idx, opCode)
               [] x = 1 -> z80StepIndexX1(s0, idx, opCode)
               [] x = 2 -> z80StepIndexX2(s0, idx, opCode)
               [] x = 3 -> z80StepIndexX3(s0, idx, opCode)
    IN  IF opCode \in {221, 253}
        THEN [s0 EXCEPT !.pos = idx]
        ELSE InvalidInstruction(r, s0, opCode)

z80StepIndex(s, idx) ==
    LET opCode == z80FetchValue(s)
        s0 == z80FetchInstruction([s EXCEPT !.pos = "idle"])
        x == DecodeX(opCode)
        r == CASE x = 0 -> z80StepIndexX0(s0, idx, opCode)
               [] x = 1 -> z80StepIndexX1(s0, idx, opCode)
               [] x = 2 -> z80StepIndexX2(s0, idx, opCode)
               [] x = 3 -> z80StepIndexX3(s0, idx, opCode)
    IN  InvalidInstruction(r, s0, opCode)

-----------------------------------------------------------------------------
(* z80StepED: the ED page.                                                 *)

\* BlockLdFlags that takes bits 3 and 5 from the byte alone.
BlockLdFlags_ByteOnly(s, v, bc) ==
    OrAll(<<BitAnd(F(s), 193), IF bc # 0 THEN F_PARITY ELSE 0,
            BitAnd(v, F_3), IF BitAnd(v, 2) # 0 THEN F_5 ELSE 0>>)

\* The flags of LDI, LDD, LDIR, LDDR from the byte moved and the new BC.
BlockLdFlags(s, v, bc) ==
    LET n == U8(v + A(s))
    IN  OrAll(<<BitAnd(F(s), 193), IF bc # 0 THEN F_PARITY ELSE 0,
                BitAnd(n, F_3), IF BitAnd(n, 2) # 0 THEN F_5 ELSE 0>>)

\* BlockLd that repeats without the five T-states of the repeat.
BlockLd_ShortRepeat(s, dir, rep) ==
    LET v == memoryPeekValue(s, s.hl)
        s1 == memoryContend(memoryPoke(memoryPeek(s, s.hl), s.de, v), s.de, 1, 2)
        bc == U16(s.bc - 1)
        s2 == [s1 EXCEPT !.bc = bc, !.af = SetLo(s.af, BlockLdFlags(s, v, bc))]
        s3 == IF rep /\ bc # 0
              THEN [s2 EXCEPT !.pc = U16(s.pc - 2), !.m = U16(s.pc - 1)]
              ELSE s2
    IN  [s3 EXCEPT !.de = U16(s.de + dir), !.hl = U16(s.hl + dir)]

\* LDI, LDD (rep FALSE) and LDIR, LDDR (rep TRUE); dir is 1 or -1.
BlockLd(s, dir, rep) ==
    LET v == memoryPeekValue(s, s.hl)
        s1 == memoryContend(memoryPoke(memoryPeek(s, s.hl), s.de, v), s.de, 1, 2)
        bc == U16(s.bc - 1)
        s2 == [s1 EXCEPT !.bc = bc, !.af = SetLo(s.af, BlockLdFlags(s, v, bc))]
        s3 == IF rep /\ bc # 0
              THEN [memoryContend(s2, s.de, 1, 5) EXCEPT !.pc = U16(s.pc - 2),
                                                         !.m = U16(s.pc - 1)]
              ELSE s2
    IN  [s3 EXCEPT !.de = U16(s.de + dir), !.hl = U16(s.hl + dir)]

\* BlockCp that repeats while BC is not 0, whatever the comparison gave.
BlockCp_RepeatOnBC(s, dir, rep) ==
    LET v == memoryPeekValue(s, s.hl)
        t == U8(A(s) - v)
        lookup == Lookup(A(s), v, t, 3)
        s1 == memoryContend(memoryPeek(s, s.hl), s.hl, 1, 5)
        bc == U16(s.bc - 1)
        f1 == OrAll(<<BitAnd(F(s), F_CARRY),
                      IF bc # 0 THEN F_PARITY + F_NEG ELSE F_NEG,
                      kHalfCarrySub[lookup + 1],
                      IF t # 0 THEN 0 ELSE F_ZERO,
                      BitAnd(t, F_SIGN)>>)
        t1 == IF BitAnd(f1, F_HALF) # 0 THEN U8(t - 1) ELSE t
        f2 == OrAll(<<f1, BitAnd(t1, F_3), IF BitAnd(t1, 2) # 0 THEN F_5 ELSE 0>>)
        s2 == [s1 EXCEPT !.bc = bc, !.af = SetLo(s.af, f2)]
        s3 == IF rep /\ bc # 0
              THEN [memoryContend(s2, s.hl, 1, 5) EXCEPT !.pc = U16(s.pc - 2),
                                                         !.m = U16(s.pc - 1)]
              ELSE [s2 EXCEPT !.m = U16(s.m + dir)]
    IN  [s3 EXCEPT !.hl = U16(s.hl + dir)]

\* CPI, CPD (rep FALSE) and CPIR, CPDR (rep TRUE).
BlockCp(s, dir, rep) ==
    LET v == memoryPeekValue(s, s.hl)
        t == U8(A(s) - v)
        lookup == Lookup(A(s), v, t, 3)
        s1 == memoryContend(memoryPeek(s, s.hl), s.hl, 1, 5)
        bc == U16(s.bc - 1)
        f1 == OrAll(<<BitAnd(F(s), F_CARRY),
                      IF bc # 0 THEN F_PARITY + F_NEG ELSE F_NEG,
                      kHalfCarrySub[lookup + 1],
                      IF t # 0 THEN 0 ELSE F_ZERO,
                      BitAnd(t, F_SIGN)>>)
        t1 == IF BitAnd(f1, F_HALF) # 0 THEN U8(t - 1) ELSE t
        f2 == OrAll(<<f1, BitAnd(t1, F_3), IF BitAnd(t1, 2) # 0 THEN F_5 ELSE 0>>)
        s2 == [s1 EXCEPT !.bc = bc, !.af = SetLo(s.af, f2)]
        s3 == IF rep /\ BitAnd(f2, F_PARITY + F_ZERO) = F_PARITY
              THEN [memoryContend(s2, s.hl, 1, 5) EXCEPT !.pc = U16(s.pc - 2),
                                                         !.m = U16(s.pc - 1)]
              ELSE [s2 EXCEPT !.m = U16(s.m + dir)]
    IN  [s3 EXCEPT !.hl = U16(s.hl + dir)]

\* The flags of the block I/O instructions from t1, t2 and the new B.
BlockIoFlags(t1, t2, b) ==
    OrAll(<<IF BitAnd(t1, 128) # 0 THEN F_NEG ELSE 0,
            IF t2 < t1 THEN F_HALF + F_CARRY ELSE 0,
            IF gParity(BitXor(BitAnd(t2, 7), b)) # 0 THEN F_PARITY ELSE 0,
            gSZ53(b)>>)

\* INI, IND (rep FALSE) and INIR, INDR (rep TRUE).
BlockIn(s, dir, rep) ==
    LET s1 == memoryContend(s, s.ir, 1, 1)
        t1 == ioInValue(s1, s.bc)
        s2 == memoryPoke(ioIn(s1, s.bc), s.hl, t1)
        b == U8(B(s) - 1)
        t2 == U8(t1 + C(s) + dir)
        s3 == [s2 EXCEPT !.m = U16(s.bc + dir), !.bc = SetHi(s.bc, b),
                         !.af = SetLo(s.af, BlockIoFlags(t1, t2, b))]
        s4 == IF rep /\ b # 0
              THEN [memoryContend(s3, s.hl, 1, 5) EXCEPT !.pc = U16(s.pc - 2)]
              ELSE s3
    IN  [s4 EXCEPT !.hl = U16(s.hl + dir)]

\* BlockOut that sets MEMPTR from BC as it was before B was decremented.
BlockOut_BeforeDec(s, dir, rep) ==
    LET s1 == memoryContend(s, s.ir, 1, 1)
        t1 == memoryPeekValue(s1, s.hl)
        b == U8(B(s) - 1)
        bc == SetHi(s.bc, b)
        s2 == [memoryPeek(s1, s.hl) EXCEPT !.bc = bc, !.m = U16(s.bc + dir)]
        hl == U16(s.hl + dir)
        t2 == U8(t1 + LO(hl))
        s3 == [ioOut(s2, bc, t1) EXCEPT !.hl = hl,
                                        !.af = SetLo(s.af, BlockIoFlags(t1, t2, b))]
    IN  IF rep /\ b # 0
        THEN [memoryContend(s3, bc, 1, 5) EXCEPT !.pc = U16(s.pc - 2)]
        ELSE s3

\* OUTI, OUTD (rep FALSE) and OTIR, OTDR (rep TRUE).
BlockOut(s, dir, rep) ==
    LET s1 == memoryContend(s, s.ir, 1, 1)
        t1 == memoryPeekValue(s1, s.hl)
        b == U8(B(s) - 1)
        bc == SetHi(s.bc, b)
        s2 == [memoryPeek(s1, s.hl) EXCEPT !.bc = bc, !.m = U16(bc + dir)]
        hl == U16(s.hl + dir)
        t2 == U8(t1 + LO(hl))
        s3 == [ioOut(s2, bc, t1) EXCEPT !.hl = hl,
                                        !.af = SetLo(s.af, BlockIoFlags(t1, t2, b))]
    IN  IF rep /\ b # 0
        THEN [memoryContend(s3, bc, 1, 5) EXCEPT !.pc = U16(s.pc - 2)]
        ELSE s3

\* The flags of LD A,I and LD A,R.
LdAIRFlags(s, a) ==
    OrAll(<<BitAnd(F(s), F_CARRY), gSZ53(a), IF s.iff2 THEN F_PARITY ELSE 0>>)

z80StepEDX1Z7(s, y) ==
    LET s1 == memoryContend(s, s.ir, 1, 1)
        v == memoryPeekValue(s, s.hl)
        s2 == memoryContend(memoryPeek(s, s.hl), s.hl, 1, 4)
    IN  CASE y = 0 -> [s1 EXCEPT !.ir = SetHi(s.ir, A(s))]
          [] y = 1 -> [s1 EXCEPT !.ir = SetLo(s.ir, A(s))]
          [] y = 2 -> SetAF8(s1, I(s), LdAIRFlags(s, I(s)))
          [] y = 3 -> SetAF8(s1, R(s), LdAIRFlags(s, R(s)))
          [] y = 4 ->
                LET a == BitOr(BitAnd(A(s), 240), BitAnd(v, 15))
                    s3 == memoryPoke(s2, s.hl, U8(BitOr(A(s) * 16, v \div 16)))
                IN  [SetAF8(s3, a, BitOr(BitAnd(F(s), F_CARRY), gSZ53P(a)))
                        EXCEPT !.m = U16(s.hl + 1)]
          [] y = 5 ->
                LET a == BitOr(BitAnd(A(s), 240), v \div 16)
                    s3 == memoryPoke(s2, s.hl, U8(BitOr(v * 16, BitAnd(A(s), 15))))
                IN  [SetAF8(s3, a, BitOr(BitAnd(F(s), F_CARRY), gSZ53P(a)))
                        EXCEPT !.m = U16(s.hl + 1)]
          [] y \in {6, 7} -> s

\* The interrupt mode that is y & 3 itself.
InterruptMode_Raw(y) == y % 4

\* y &= 3; IM = (y == 0) ? 0 : y - 1.
InterruptMode(y) == IF y % 4 = 0 THEN 0 ELSE (y % 4) - 1

z80StepEDX1(s, opCode) ==
    LET y == DecodeY(opCode)
        z == DecodeZ(opCode)
        p == DecodeP(opCode)
        q == DecodeQ(opCode)
        ref == IF y = 6 THEN "v" ELSE z80GetReg(y)
        rr == z80GetReg16_1(p)
        tt == memoryPeek16Value(s, s.pc)
        st == [memoryPeek16(s, s.pc) EXCEPT !.pc = U16(s.pc + 2)]
    IN  CASE z = 0 ->
                LET s1 == [s EXCEPT !.m = U16(s.bc + 1)]
                    v == ioInValue(s1, s.bc)
                    s2 == RefSet(ioIn(s1, s.bc), ref, v)
                IN  SetF(s2, BitOr(BitAnd(F(s), F_CARRY), gSZ53P(v)))
          [] z = 1 -> [ioOut(s, s.bc, RefGet(s, ref)) EXCEPT !.m = U16(s.bc + 1)]
          [] z = 2 ->
                LET s1 == memoryContend(s, s.ir, 1, 7)
                IN  IF q = 0 THEN z80SbcReg16(s1, s1[rr]) ELSE z80AdcReg16(s1, s1[rr])
          [] z = 3 ->
                IF q = 0
                THEN [memoryPoke16(st, tt, s[rr]) EXCEPT !.m = U16(tt + 1)]
                ELSE [memoryPeek16(st, tt) EXCEPT ![rr] = memoryPeek16Value(st, tt),
                                                  !.m = U16(tt + 1)]
          [] z = 4 -> z80SubReg8(SetA(s, 0), A(s))
          [] z = 5 ->
                LET w == z80PopValue(s)
                IN  [z80Pop(s) EXCEPT !.iff1 = s.iff2, !.pc = w, !.m = w]
          [] z = 6 -> [s EXCEPT !.im = InterruptMode(y)]
          [] z = 7 -> z80StepEDX1Z7(s, y)

\* The sixteen block instructions: bits 0 and 1 of the opcode choose among LD,
\* CP, IN and OUT, bit 3 the direction and bit 4 the repeat.
z80StepEDX2(s, opCode) ==
    LET dir == IF Bit(opCode, 3) = 1 THEN -1 ELSE 1
        rep == Bit(opCode, 4) = 1
    IN  IF opCode < 160 \/ Bit(opCode, 2) = 1 THEN Invalid
        ELSE CASE opCode % 4 = 0 -> BlockLd(s, dir, rep)
               [] opCode % 4 = 1 -> BlockCp(s, dir, rep)
               [] opCode % 4 = 2 -> BlockIn(s, dir, rep)
               [] opCode % 4 = 3 -> BlockOut(s, dir, rep)

z80StepED(s) ==
    LET opCode == z80FetchValue(s)
        s0 == z80FetchInstruction([s EXCEPT !.pos = "idle"])
        x == DecodeX(opCode)
        r == CASE x = 0 -> Invalid
               [] x = 1 -> z80StepEDX1(s0, opCode)
               [] x = 2 -> z80StepEDX2(s0, opCode)
               [] x = 3 -> Invalid
    IN  InvalidInstruction(r, s0, opCode)

\* z80Step: the fetch and z80Execute.
z80Step(s) == z80Execute(z80FetchInstruction(s), z80FetchValue(s))

-----------------------------------------------------------------------------
(* Spec: z80Step run on one-instruction programs of every opcode of every  *)
(* page, from register, T-state and memory contents chosen to put the      *)
(* instruction's accesses on the ROM, on contended RAM and at the end of   *)
(* the frame. A z80Step that meets the prefix DD, ED or FD goes on in      *)
(* z80StepIndex or z80StepED as its next part, so that a chain of prefixes *)
(* is a chain of parts of one step.                                        *)

\* The environment of a run: the byte a read past the contention table finds,
\* the order in which the build evaluates memoryPeek16's operands, the byte the
\* input ports deliver, and the T-state the run starts at: the first contended
\* T-state or the last T-state of the frame.
Envs ==
    {[ub |-> 0, ord |-> "lohi", inb |-> 255, t |-> 14335],
     [ub |-> 255, ord |-> "hilo", inb |-> 0, t |-> 69887]}

\* Spectrum::getFrameTime: update runs z80Step while the counter is below it.
FrameTime == 69888

MaxSteps == 2

\* The operand bytes after the opcode: nn = 0x3FFF, d = -1, n = 255; or
\* nn = 0x8005, d = 5, n = 5.
Operands == {<<255, 63>>, <<5, 128>>}
PrefixBytes == {<<>>, <<203>>, <<237>>, <<221>>, <<253>>}

Programs ==
    {pre \o <<op>> \o ops : pre \in PrefixBytes, op \in 0 .. 255, ops \in Operands}
    \cup {<<pre, 203, ops[1], op>> : pre \in {221, 253}, op \in 0 .. 255, ops \in Operands}

PcBases == {16640, 32768}

\* Register contents: every register pair at the same address around the end of
\* the ROM or of contended RAM but IY, which is two bytes further, with A, F, I
\* and R to go with it.
Presets ==
    {[ptr |-> 16383, af |-> 4608, ir |-> 127],
     [ptr |-> 16385, af |-> 39679, ir |-> 16639],
     [ptr |-> 32767, af |-> 69, ir |-> 16384]}

z80Preset(ps, pc) ==
    [z80Init EXCEPT !.af = ps.af, !.bc = ps.ptr, !.de = ps.ptr, !.hl = ps.ptr,
                    !.sp = ps.ptr, !.ix = ps.ptr, !.iy = U16(ps.ptr + 2), !.ir = ps.ir,
                    !.pc = pc]

\* The bytes around the addresses the presets point at.
DataImage ==
    [a \in {0, 56, 16381, 16382, 16383, 16384, 16385, 16386, 32766, 32767} |->
        CASE a = 0 -> 243 [] a = 56 -> 201
          [] a = 16381 -> 17 [] a = 16382 -> 34 [] a = 16383 -> 60
          [] a = 16384 -> 119 [] a = 16385 -> 136 [] a = 16386 -> 153
          [] a = 32766 -> 170 [] a = 32767 -> 187]

ProgramImage(prog, pc) ==
    [a \in DOMAIN DataImage \cup {U16(pc + i - 1) : i \in 1 .. Len(prog)} |->
        IF \E i \in 1 .. Len(prog) : U16(pc + i - 1) = a
        THEN prog[CHOOSE i \in 1 .. Len(prog) : U16(pc + i - 1) = a]
        ELSE DataImage[a]]

\* A run of DD prefixes in contended RAM, as long as it takes the T-state counter
\* from the last T-state of the frame past the end of the contention table.
ChainLen == 262
ChainImage == [a \in 16384 .. 16384 + ChainLen - 1 |-> 221]

StartStep(env) ==
    [pos |-> "idle", ub |-> env.ub, ord |-> env.ord, inb |-> env.inb,
     log |-> <<>>, reads |-> <<>>, fetches |-> <<>>, t0 |-> 0, mem0 |-> <<>>,
     regs0 |-> z80Init]

InitProgram ==
    \E prog \in Programs, pc \in PcBases, ps \in Presets, env \in Envs :
        /\ mem = ProgramImage(prog, pc)
        /\ tState = env.t
        /\ regs = z80Preset(ps, pc)
        /\ last = StartStep(env)

InitChain ==
    \E env \in Envs :
        /\ mem = ChainImage
        /\ tState = FrameTime - 1
        /\ regs = [z80Init EXCEPT !.pc = 16384]
        /\ last = StartStep(env)

Init ==
    /\ contention = NoTable
    /\ openPc = "done"
    /\ romWritable = FALSE
    /\ hist = <<>>
    /\ steps = 0
    /\ host = NoHost
    /\ (InitProgram \/ InitChain)

\* The machine record of the current state.
Machine ==
    [af |-> regs.af, bc |-> regs.bc, de |-> regs.de, hl |-> regs.hl,
     sp |-> regs.sp, pc |-> regs.pc, ix |-> regs.ix, iy |-> regs.iy,
     ir |-> regs.ir, af_ |-> regs.af_, bc_ |-> regs.bc_, de_ |-> regs.de_,
     hl_ |-> regs.hl_, m |-> regs.m, halt |-> regs.halt, iff1 |-> regs.iff1,
     iff2 |-> regs.iff2, im |-> regs.im, lastOpcodeWasEI |-> regs.lastOpcodeWasEI,
     mem |-> mem, t |-> tState, log |-> last.log, reads |-> last.reads,
     ub |-> last.ub, ord |-> last.ord, inb |-> last.inb,
     fetches |-> last.fetches, pos |-> last.pos]

\* The state after a part of the step that started at T-state t0 with the
\* memory m0 and the registers r0 has taken the machine to s.
Commit(s, t0, m0, r0) ==
    /\ regs' = [af |-> s.af, bc |-> s.bc, de |-> s.de, hl |-> s.hl,
                sp |-> s.sp, pc |-> s.pc, ix |-> s.ix, iy |-> s.iy,
                ir |-> s.ir, af_ |-> s.af_, bc_ |-> s.bc_, de_ |-> s.de_,
                hl_ |-> s.hl_, m |-> s.m, halt |-> s.halt, iff1 |-> s.iff1,
                iff2 |-> s.iff2, im |-> s.im, lastOpcodeWasEI |-> s.lastOpcodeWasEI]
    /\ mem' = s.mem
    /\ tState' = s.t
    /\ last' = [last EXCEPT !.pos = s.pos, !.log = s.log, !.reads = s.reads,
                            !.fetches = s.fetches, !.t0 = t0, !.mem0 = m0,
                            !.regs0 = r0]
    /\ UNCHANGED <<contention, openPc, romWritable, hist, host>>

\* The machine as a z80Step finds it: nothing logged yet.
StepStart == [Machine EXCEPT !.log = <<>>, !.reads = <<>>, !.fetches = <<>>]

\* z80Step, called by the frame loop, up to where it returns or calls
\* z80StepIndex or z80StepED.
Step ==
    /\ last.pos = "idle"
    /\ steps < MaxSteps
    /\ tState < FrameTime
    /\ Commit(z80Step(StepStart), tState, mem, regs)
    /\ steps' = steps + 1

\* z80StepIndex, called from z80Execute for the prefix DD or FD.
StepIndex ==
    /\ last.pos \in {"ix", "iy"}
    /\ Commit(z80StepIndex(Machine, last.pos), last.t0, last.mem0, last.regs0)
    /\ UNCHANGED steps

\* z80StepED, called from z80Execute for the prefix ED.
StepED ==
    /\ last.pos = "ed"
    /\ Commit(z80StepED(Machine), last.t0, last.mem0, last.regs0)
    /\ UNCHANGED steps

Next == Step \/ StepIndex \/ StepED

Spec == Init /\ [][Next]_vars

-----------------------------------------------------------------------------
(* SpecFrame: Spectrum::update, whose body is not in the source, after     *)
(* sections 4.1, 4.5, 4.6 and 5 of the specification. Each turn of its     *)
(* loop checks PC against the breakpoints and either reports a hit and     *)
(* stops or runs one z80Step; when the T-state counter has reached the     *)
(* frame time it takes the frame time off the counter, raises the          *)
(* interrupt and reports the frame. The host toggles and adds breakpoints  *)
(* and sets the machine running again between calls.                       *)

\* z80Interrupt that takes the interrupt directly after EI as well.
z80Interrupt_NoDelay(s) ==
    IF s.iff1
    THEN LET pc == IF s.halt THEN U16(s.pc + 1) ELSE s.pc
             s1 == memoryPokeNoContend(s, U16(s.sp - 1), HI(pc))
             s2 == memoryPokeNoContend(s1, U16(s.sp - 2), LO(pc))
             vector == 256 * I(s) + 255
         IN  [s2 EXCEPT !.halt = FALSE, !.iff1 = FALSE, !.iff2 = FALSE,
                        !.sp = U16(s.sp - 2),
                        !.pc = IF s.im = 2
                               THEN MemRead(s.mem, vector)
                                    + 256 * MemRead(s.mem, U16(vector + 1))
                               ELSE 56,
                        !.t = s.t + (IF s.im = 2 THEN 19 ELSE 13)]
    ELSE s

\* The maskable interrupt, raised between instructions.
z80Interrupt(s) ==
    IF s.iff1 /\ ~s.lastOpcodeWasEI
    THEN LET pc == IF s.halt THEN U16(s.pc + 1) ELSE s.pc
             s1 == memoryPokeNoContend(s, U16(s.sp - 1), HI(pc))
             s2 == memoryPokeNoContend(s1, U16(s.sp - 2), LO(pc))
             vector == 256 * I(s) + 255
         IN  [s2 EXCEPT !.halt = FALSE, !.iff1 = FALSE, !.iff2 = FALSE,
                        !.sp = U16(s.sp - 2),
                        !.pc = IF s.im = 2
                               THEN MemRead(s.mem, vector)
                                    + 256 * MemRead(s.mem, U16(vector + 1))
                               ELSE 56,
                        !.t = s.t + (IF s.im = 2 THEN 19 ELSE 13)]
    ELSE s

\* The Z80 structure of a machine record.
Z80Of(s) ==
    [af |-> s.af, bc |-> s.bc, de |-> s.de, hl |-> s.hl,
     sp |-> s.sp, pc |-> s.pc, ix |-> s.ix, iy |-> s.iy,
     ir |-> s.ir, af_ |-> s.af_, bc_ |-> s.bc_, de_ |-> s.de_,
     hl_ |-> s.hl_, m |-> s.m, halt |-> s.halt, iff1 |-> s.iff1,
     iff2 |-> s.iff2, im |-> s.im, lastOpcodeWasEI |-> s.lastOpcodeWasEI]

\* The whole of a z80Step from the machine s: z80Step and the calls of
\* z80StepIndex and z80StepED that it goes on in.
RECURSIVE z80StepWhole(_)
z80StepWhole(s) ==
    IF s.pos = "idle" THEN s
    ELSE IF s.pos = "ed" THEN z80StepWhole(z80StepED(s))
    ELSE z80StepWhole(z80StepIndex(s, s.pos))

\* The end of the frame that resets the counter to 0.
FrameEnd_Reset(s) ==
    IF s.t >= FrameTime
    THEN [z80Interrupt([s EXCEPT !.t = 0]) EXCEPT !.pos = "frame"]
    ELSE s

\* The end of update's turn: with the frame time reached, the frame time comes
\* off the counter and the interrupt is raised; pos = "frame" reports the frame.
FrameEnd(s) ==
    IF s.t >= FrameTime
    THEN [z80Interrupt([s EXCEPT !.t = s.t - FrameTime]) EXCEPT !.pos = "frame"]
    ELSE s

findBreakpoint(bps, address) == {b \in bps : b.address = address}
shouldBreak(bps, address) == findBreakpoint(bps, address) # {}
\* shouldBreak that leaves a Temporary breakpoint in the set.
Tripped_KeepAll(bps, address) == bps

\* The breakpoints left when shouldBreak has found one at address.
Tripped(bps, address) ==
    bps \ {b \in findBreakpoint(bps, address) : b.type = "Temporary"}

hasUserBreakpointAt(bps, address) ==
    \E b \in findBreakpoint(bps, address) : b.type = "User"

MaxTurns == 3
BreakAddrs == {32768, 32769}
FramePrograms ==
    {<<0, 0, 0>>, <<118, 0, 0>>, <<251, 0, 0>>, <<0, 251, 0>>, <<243, 0, 0>>, <<0, 118, 0>>}
FrameTStates == {0, 69880, 69884, 69887}

\* The interrupt vectors: RET at 0x0038, and 0x1234 in the table at 0x40FF.
FrameImage(prog) ==
    [a \in {56, 16639, 16640, 32768, 32769, 32770} |->
        CASE a = 56 -> 201 [] a = 16639 -> 52 [] a = 16640 -> 18
          [] OTHER -> prog[a - 32767]]

InitFrame ==
    /\ contention = NoTable
    /\ openPc = "done"
    /\ romWritable = FALSE
    /\ hist = <<>>
    /\ steps = 0
    /\ host = NoHost
    /\ last = NoStep
    /\ tState \in FrameTStates
    /\ \E prog \in FramePrograms : mem = FrameImage(prog)
    /\ \E iff \in BOOLEAN, im \in {0, 1, 2} :
          regs = [z80Init EXCEPT !.pc = 32768, !.sp = 16386, !.ir = 16384,
                                 !.iff1 = iff, !.iff2 = iff, !.im = im]

\* The machine after a turn of update's loop has taken it to s.
Settle(s) ==
    /\ regs' = Z80Of(s)
    /\ mem' = s.mem
    /\ tState' = s.t
    /\ last' = [last EXCEPT !.pos = s.pos, !.log = s.log, !.reads = s.reads,
                            !.fetches = s.fetches, !.t0 = tState, !.mem0 = mem,
                            !.regs0 = regs]
    /\ UNCHANGED <<contention, openPc, romWritable, hist>>

\* One turn of update's loop in the run mode Normal.
UpdateTurn ==
    /\ host.mode = "Normal"
    /\ steps + host.hits < MaxTurns
    /\ IF shouldBreak(host.breakpoints, regs.pc)
       THEN /\ host' = [host EXCEPT !.mode = "Stopped", !.hits = @ + 1,
                                    !.breakpoints = Tripped(@, regs.pc)]
            /\ UNCHANGED <<contention, openPc, mem, tState, romWritable, hist,
                           regs, last, steps>>
       ELSE /\ Settle(FrameEnd(z80StepWhole(z80Step([StepStart EXCEPT !.pos = "idle"]))))
            /\ steps' = steps + 1
            /\ host' = [host EXCEPT !.frames = IF last'.pos = "frame" THEN @ + 1 ELSE @]

toggleBreakpoint ==
    \E a \in BreakAddrs :
        /\ host' = [host EXCEPT !.breakpoints =
                        IF shouldBreak(@, a)
                        THEN @ \ findBreakpoint(@, a)
                        ELSE @ \cup {[type |-> "User", address |-> a]}]
        /\ UNCHANGED <<contention, openPc, mem, tState, romWritable, hist,
                       regs, last, steps>>

addTemporaryBreakpoint ==
    \E a \in BreakAddrs :
        /\ ~shouldBreak(host.breakpoints, a)
        /\ host' = [host EXCEPT !.breakpoints =
                        @ \cup {[type |-> "Temporary", address |-> a]}]
        /\ UNCHANGED <<contention, openPc, mem, tState, romWritable, hist,
                       regs, last, steps>>

\* The host sets the machine running again.
togglePause ==
    /\ host.mode = "Stopped"
    /\ host' = [host EXCEPT !.mode = "Normal"]
    /\ UNCHANGED <<contention, openPc, mem, tState, romWritable, hist,
                   regs, last, steps>>

NextFrame == UpdateTurn \/ toggleBreakpoint \/ addTemporaryBreakpoint \/ togglePause

SpecFrame == InitFrame /\ [][NextFrame]_vars

-----------------------------------------------------------------------------
(* SpecRun: whole z80Steps, one after the other, from the states that the   *)
(* relative jumps, the block instructions, the 8-bit additions and          *)
(* subtractions and the runs of DD and FD prefixes are about. All of it is  *)
(* in memory that is not contended.                                         *)

MaxRunSteps == 5

\* JR d, DJNZ d and JR cc,d with every displacement byte, at both ends of the
\* address space.
JumpOps == {16, 24, 32, 40, 48, 56}
JumpBases == {0, 65534}
InitJump ==
    \E op \in JumpOps, d \in 0 .. 255, pc \in JumpBases, b \in {1, 2}, f \in {0, 65} :
        /\ mem = [a \in {pc, U16(pc + 1)} |-> IF a = pc THEN op ELSE d]
        /\ regs = [z80Init EXCEPT !.pc = pc, !.bc = 256 * b, !.af = f, !.sp = 49152]

\* LDIR, LDDR, CPIR and CPDR over the four bytes at 0xC000, to 0xD000.
BlockOps == {176, 184, 177, 185}
BlockBytes == <<8, 2, 40, 255>>
BlockImage(op) ==
    [a \in {32768, 32769} \cup (49152 .. 49155) |->
        CASE a = 32768 -> 237 [] a = 32769 -> op [] OTHER -> BlockBytes[a - 49151]]
InitBlock ==
    \E op \in BlockOps, n \in 0 .. 4, acc \in {0, 10, 40}, f \in {0, 215} :
        /\ mem = BlockImage(op)
        /\ regs = [z80Init EXCEPT !.pc = 32768, !.bc = n, !.af = 256 * acc + f,
                                  !.hl = IF op \in {176, 177} THEN 49152 ELSE 49155,
                                  !.de = IF op \in {176, 177} THEN 53248 ELSE 53251,
                                  !.sp = 61440]

\* ADD, ADC, SUB and SBC A,n, and LD A,5 in front of ADD A,3.
AluOps == {198, 206, 214, 222}
AluValues ==
    {0, 1, 3, 5, 7, 8, 9, 15, 16, 17, 31, 32, 63, 64, 112, 119, 120, 127, 128, 129,
     136, 143, 240, 248, 255}
InitAlu ==
    \/ \E op \in AluOps, acc \in AluValues, b \in AluValues, f \in {0, 1, 254, 255} :
        /\ mem = [a \in {32768, 32769} |-> IF a = 32768 THEN op ELSE b]
        /\ regs = [z80Init EXCEPT !.pc = 32768, !.af = 256 * acc + f, !.sp = 61440]
    \/ /\ mem = [a \in 32768 .. 32771 |-> <<62, 5, 198, 3>>[a - 32767]]
       /\ regs = [z80Init EXCEPT !.pc = 32768, !.af = 65535, !.sp = 61440]

\* Runs of one, two and three prefixes DD and FD in front of an opcode.
PrefixRuns ==
    {<<p>> : p \in {221, 253}} \cup {<<p, q>> : p, q \in {221, 253}}
        \cup {<<p, q, r>> : p, q, r \in {221, 253}}
PrefixTails ==
    {<<0>>, <<33, 5, 128>>, <<35>>, <<229>>, <<126, 5>>, <<112, 5>>, <<134, 5>>,
     <<203, 5, 70>>, <<203, 5, 198>>, <<203, 5, 22>>, <<237, 95>>, <<237, 176>>,
     <<233>>, <<249>>, <<4>>, <<235>>}
PrefixImage(prog) ==
    [a \in (32768 .. 32767 + Len(prog)) \cup {49157, 53253} |->
        CASE a = 49157 -> 129 [] a = 53253 -> 36 [] OTHER -> prog[a - 32767]]
InitPrefix ==
    \E run \in PrefixRuns, tail \in PrefixTails, f \in {0, 1} :
        /\ mem = PrefixImage(run \o tail)
        /\ regs = [z80Init EXCEPT !.pc = 32768, !.af = 4096 + f, !.bc = 2,
                                  !.de = 57344, !.hl = 57600,
                                  !.ix = 49152, !.iy = 53248, !.sp = 61440,
                                  !.ir = 126]

\* ADC HL,rr and SBC HL,rr behind ED, and ADD HL,rr, with BC, DE and SP the
\* same operand.
WordOps == {<<237, op>> : op \in {74, 90, 106, 122, 66, 82, 98, 114}}
               \cup {<<op>> : op \in {9, 25, 41, 57}}
WordValues == {0, 1, 255, 256, 2048, 4095, 4096, 32767, 32768, 32769, 61440, 65535}
InitWord ==
    \E prog \in WordOps, hl \in WordValues, r \in WordValues, f \in {0, 1, 254, 255} :
        /\ mem = [a \in 32768 .. 32767 + Len(prog) |-> prog[a - 32767]]
        /\ regs = [z80Init EXCEPT !.pc = 32768, !.af = f, !.hl = hl,
                                  !.bc = r, !.de = r, !.sp = r]

\* The rotates and shifts of the CB page on B, each alone and RLC, RRC, RL and
\* RR with its inverse behind it, and RLCA, RRCA, RLA and RRA, on every byte.
RotatePrograms ==
    {<<203, 8 * k>> : k \in 0 .. 7}
        \cup {<<203, 0, 203, 8>>, <<203, 8, 203, 0>>, <<203, 16, 203, 24>>, <<203, 24, 203, 16>>}
        \cup {<<op>> : op \in {7, 15, 23, 31}}
InitRotate ==
    \E prog \in RotatePrograms, v \in 0 .. 255, f \in {0, 1, 196, 255} :
        /\ Len(prog) > 1 => f \in {0, 1}
        /\ mem = [a \in 32768 .. 32767 + Len(prog) |-> prog[a - 32767]]
        /\ regs = [z80Init EXCEPT !.pc = 32768, !.af = 256 * v + f, !.bc = 256 * v,
                                  !.sp = 61440]

\* BIT n,B and BIT n,(HL), and BIT n,(IX+d) and BIT n,(IY+d) with d = 5 and -5,
\* on one operand byte in B and at the three addresses.
BitPrograms ==
    {<<203, 64 + 8 * n + z>> : n \in 0 .. 7, z \in {0, 6}}
        \cup {<<p, 203, d, 70 + 8 * n>> : p \in {221, 253}, d \in {5, 251}, n \in 0 .. 7}
BitValues == {0, 1, 40, 128, 215, 254, 255}
BitImage(prog, v) ==
    [a \in (32768 .. 32767 + Len(prog)) \cup {16379, 16389, 43243, 43253, 49152} |->
        IF a \in 32768 .. 32767 + Len(prog) THEN prog[a - 32767] ELSE v]
InitBit ==
    \E prog \in BitPrograms, v \in BitValues, mp \in {0, 10240}, f \in {0, 255} :
        /\ mem = BitImage(prog, v)
        /\ regs = [z80Init EXCEPT !.pc = 32768, !.af = f, !.bc = 256 * v, !.m = mp,
                                  !.hl = 49152, !.ix = 16384, !.iy = 43248,
                                  !.sp = 61440]

\* The instructions that set MEMPTR from their operands or from BC, and the
\* register loads, 8-bit arithmetic, INC r, DEC r, EX and EXX, which do not
\* set it.
RegisterOps ==
    {op \in 64 .. 191 : op % 8 # 6 /\ (op < 128 => (op \div 8) % 8 # 6)}
        \cup {8 * y + z : y \in {0, 1, 2, 3, 4, 5, 7}, z \in {4, 5}}
        \cup {8, 235, 217}
MemptrPrograms ==
    {<<op, lo, hi>> : op \in {50, 205} \cup {194 + 8 * y : y \in 0 .. 7}
                                      \cup {196 + 8 * y : y \in 0 .. 7},
                     lo \in {52, 255}, hi \in {192}}
        \cup {<<op, n>> : op \in {211, 219}, n \in {18, 255}}
        \cup {<<237, op>> : op \in {162, 163, 170, 171, 178, 179, 186, 187}}
        \cup {<<op>> : op \in RegisterOps}
InitMemptr ==
    \E prog \in MemptrPrograms, acc \in {18, 154}, f \in {0, 255}, bc \in {308, 767} :
        /\ mem = [a \in 32768 .. 32767 + Len(prog) |-> prog[a - 32767]]
        /\ regs = [z80Init EXCEPT !.pc = 32768, !.af = 256 * acc + f, !.bc = bc,
                                  !.m = 23130, !.hl = 49152, !.de = 53248,
                                  !.sp = 61440]

\* PUSH BC and POP DE, PUSH AF and POP HL, and CALL 0xC000 with RET at 0xC000,
\* with the stack at both ends of the address space, across the end of the ROM
\* and in RAM.
StackPrograms == {<<197, 209>>, <<245, 225>>, <<205, 0, 192>>}
StackValues == {0, 255, 4660, 32769, 65280, 65535}
StackPointers == {0, 1, 2, 16384, 16385, 16386, 32768, 65535}
InitStack ==
    \E prog \in StackPrograms, x \in StackValues, sp \in StackPointers :
        /\ mem = [a \in (32768 .. 32767 + Len(prog)) \cup {49152} |->
                      IF a = 49152 THEN 201 ELSE prog[a - 32767]]
        /\ regs = [z80Init EXCEPT !.pc = 32768, !.af = x, !.bc = x, !.sp = sp]

InitRun ==
    /\ contention = NoTable
    /\ openPc = "done"
    /\ romWritable = FALSE
    /\ hist = <<>>
    /\ steps = 0
    /\ host = NoHost
    /\ last = NoStep
    /\ tState = 0
    /\ (InitJump \/ InitBlock \/ InitAlu \/ InitPrefix \/ InitWord \/ InitRotate
          \/ InitBit \/ InitMemptr \/ InitStack)

\* z80Step, as the frame loop calls it, from its entry to its return.
RunStep ==
    /\ steps < MaxRunSteps
    /\ Settle(z80StepWhole(z80Step([StepStart EXCEPT !.pos = "idle"])))
    /\ steps' = steps + 1
    /\ UNCHANGED host

NextRun == RunStep

SpecRun == InitRun /\ [][NextRun]_vars

-----------------------------------------------------------------------------
(* SpecDaa: ADD, ADC, SUB and SBC A,n and DAA behind it, on all the bytes   *)
(* that are packed BCD, with the carry clear and set.                       *)

MaxDaaSteps == 2

\* The bytes with both nibbles 0 .. 9.
PackedBcd == {16 * hi + lo : hi \in 0 .. 9, lo \in 0 .. 9}

InitDaa ==
    /\ contention = NoTable
    /\ openPc = "done"
    /\ romWritable = FALSE
    /\ hist = <<>>
    /\ steps = 0
    /\ host = NoHost
    /\ last = NoStep
    /\ tState = 0
    /\ \E op \in AluOps, acc \in PackedBcd, b \in PackedBcd, f \in {0, 1} :
          /\ op \in {198, 214} => f = 0
          /\ mem = [a \in 32768 .. 32770 |-> <<op, b, 39>>[a - 32767]]
          /\ regs = [z80Init EXCEPT !.pc = 32768, !.af = 256 * acc + f, !.sp = 61440]

\* z80Step, from its entry to its return, on the two instructions.
DaaStep ==
    /\ steps < MaxDaaSteps
    /\ Settle(z80StepWhole(z80Step([StepStart EXCEPT !.pos = "idle"])))
    /\ steps' = steps + 1
    /\ UNCHANGED host

NextDaa == DaaStep

SpecDaa == InitDaa /\ [][NextDaa]_vars

-----------------------------------------------------------------------------
(* SpecMode: the run mode of Nx behind its accessors. The constructor of   *)
(* Nx is not in the source, so the run mode starts as any of the four.     *)

\* enum class RunMode
RunModes == {"Stopped", "Normal", "StepIn", "StepOver"}

MaxCalls == 3

InitMode ==
    /\ contention = NoTable
    /\ openPc = "done"
    /\ romWritable = FALSE
    /\ hist = <<>>
    /\ steps = 0
    /\ last = NoStep
    /\ tState = 0
    /\ mem = ChainImage
    /\ regs = z80Init
    /\ \E m \in RunModes : host = [NoHost EXCEPT !.mode = m]

\* Nx::getRunMode: return m_runMode.
getRunMode == host.mode

\* Nx::setRunMode(runMode): m_runMode = m_runMode. hist keeps the arguments
\* of the calls.
setRunMode(runMode) ==
    /\ Len(hist) < MaxCalls
    /\ host' = [host EXCEPT !.mode = host.mode]
    /\ hist' = Append(hist, runMode)
    /\ UNCHANGED <<contention, openPc, mem, tState, romWritable, regs, last, steps>>

NextMode == \E m \in RunModes : setRunMode(m)

SpecMode == InitMode /\ [][NextMode]_vars

-----------------------------------------------------------------------------
(* Properties. Each is checked under the specification named with it.      *)

\* The table the specification describes: the pattern 6,5,4,3,2,1,0,0 over the
\* first 128 T-states of each of the 192 lines of 224 T-states from 14335.
ExpectedContention(t) ==
    IF t >= 14335 /\ t < 14335 + 192 * 224 /\ (t - 14335) % 224 < 128
    THEN <<6, 5, 4, 3, 2, 1, 0, 0>>[((t - 14335) % 8) + 1]
    ELSE 0

InContendedSlot(a) == a >= 16384 /\ a <= 32767

\* C1 (Spec): every opcode fetch of a z80Step leaves bit 7 of R as it was and
\* adds one modulo 128 to the low seven bits of R.
C1_RefreshRegister ==
    \A i \in 1 .. Len(last.fetches) :
        LET before == last.fetches[i][1]
            after == last.fetches[i][2]
        IN  /\ after \div 128 = before \div 128
            /\ after % 128 = ((before % 128) + 1) % 128

\* C2 (SpecMem): a poke of v at a followed by a peek at a returns v when
\* a >= 0x4000, and the byte that was at a before the poke when a < 0x4000.
C2_PokeThenPeek ==
    \A i \in 1 .. Len(hist) - 1 :
        LET p == hist[i]
            q == hist[i + 1]
        IN  (/\ p.op \in {"poke", "pokeNoContend"}
             /\ q.op \in {"peek", "peekNoContend"}
             /\ q.addr = p.addr)
            => q.ret = (IF p.addr >= 16384 THEN p.val ELSE MemRead(p.mem0, p.addr))

C2_Witness ==
    /\ Len(hist) = 2
    /\ hist[1].op = "poke" /\ hist[1].addr = 16383 /\ hist[1].val = 255
    /\ hist[2].op = "peek" /\ hist[2].addr = 16383 /\ hist[2].ret = 60

\* The writes of the step's log to address a, in order.
WritesTo(a) == SelectSeq(last.log, LAMBDA e : e[1] = "MW" /\ e[3] = a)

\* C3 (Spec): a z80Step changes no byte below 0x4000, whatever it writes there,
\* and every byte it writes at 0x4000 or above is stored, the high half of a
\* 16-bit store at 0x3FFF among them.
C3_RomUnchanged ==
    steps > 0 =>
        /\ \A a \in DOMAIN mem \cup DOMAIN last.mem0 :
                a < 16384 => MemRead(mem, a) = MemRead(last.mem0, a)
        /\ \A i \in 1 .. Len(last.log) :
                LET e == last.log[i]
                IN  (e[1] = "MW" /\ e[3] >= 16384)
                    => MemRead(mem, e[3]) = WritesTo(e[3])[Len(WritesTo(e[3]))][4]

\* A 16-bit store at 0x3FFF has finished: its low byte, different from the ROM's,
\* was dropped, and its high byte has replaced the byte at 0x4000.
C3_Witness ==
    /\ steps > 0
    /\ last.pos = "idle"
    /\ \E i \in 1 .. Len(last.log) - 2 :
            /\ last.log[i][1] = "MW" /\ last.log[i][3] = 16383
            /\ last.log[i][4] # MemRead(mem, 16383)
            /\ last.log[i + 2][1] = "MW" /\ last.log[i + 2][3] = 16384
            /\ last.log[i + 2][4] = MemRead(mem, 16384)
            /\ MemRead(mem, 16384) # MemRead(last.mem0, 16384)

\* C4 (SpecRom): a poke below 0x4000 stores its byte exactly when the last
\* setRomWriteState before it marked the ROM writable (a following peek returns the
\* byte); with the flag never set or cleared again the poke is dropped.
C4_FlagBefore(i) ==
    LET sets == {j \in 1 .. i - 1 : hist[j].op = "setRomWriteState"}
    IN  IF sets = {} THEN FALSE
        ELSE hist[CHOOSE j \in sets : \A k \in sets : k <= j].val

C5_ContentionTable ==
    openPc = "done" =>
        /\ Len(contention.tab) <= 70930
        /\ \A t \in 0 .. 70929 : ArrayRead(contention.tab, t) = ExpectedContention(t)

C5_Witness ==
    /\ openPc = "done"
    /\ ArrayRead(contention.tab, 14335) = 6
    /\ ArrayRead(contention.tab, 14335 + 191 * 224 + 125) = 1
    /\ ArrayRead(contention.tab, 14335 + 128) = 0

\* C6 (SpecContend): memoryContend on a contended address advances the counter n
\* times, each time by the table entry at the counter's current value plus delay;
\* on any other address it adds delay * n and reads no table entry.
\* memoryContention returns 0 outside 0x4000 .. 0x7FFF.
RECURSIVE C6_Advance(_, _, _)
C6_Advance(t, delay, n) ==
    IF n <= 0 THEN t ELSE C6_Advance(t + ExpectedContention(t) + delay, delay, n - 1)

C6_Contend ==
    \A i \in 1 .. Len(hist) :
        LET e == hist[i]
        IN  /\ (e.op = "contend" /\ InContendedSlot(e.addr))
               => /\ Len(e.reads) = e.n
                  /\ e.n > 0 => e.reads[1] = e.t0
                  /\ ~OutOfTable(e.reads) => e.t1 = C6_Advance(e.t0, e.delay, e.n)
            /\ (e.op = "contend" /\ ~InContendedSlot(e.addr))
               => /\ e.t1 = e.t0 + e.delay * e.n
                  /\ e.reads = <<>>
            /\ (e.op = "contention" /\ ~InContendedSlot(e.addr))
               => /\ e.ret = 0
                  /\ e.reads = <<>>

C6_Witness ==
    /\ Len(hist) = 1
    /\ hist[1].op = "contend" /\ hist[1].addr = 16384
    /\ hist[1].delay = 1 /\ hist[1].n = 2
    /\ hist[1].t0 = 14335 /\ hist[1].t1 = 14343

\* C7 (Spec): every index at which a z80Step that started below the frame time
\* reads the contention table lies in 0 .. 70929.
C7_TableIndex ==
    last.t0 < FrameTime => ~OutOfTable(last.reads)

\* C8 (SpecMem): a timed peek or poke adds 3 to the counter outside
\* 0x4000 .. 0x7FFF and table[t] + 3 inside, before the byte is read or written;
\* a peek, timed or not, leaves memory alone and the untimed one the counter too.
C8_TimedAccess ==
    \A i \in 1 .. Len(hist) :
        LET e == hist[i]
        IN  /\ (e.op \in {"poke", "peek"} /\ ~InContendedSlot(e.addr))
               => e.t1 = e.t0 + 3
            /\ (e.op \in {"poke", "peek"} /\ InContendedSlot(e.addr) /\ InTable(e.t0))
               => e.t1 = e.t0 + ExpectedContention(e.t0) + 3
            /\ e.op \in {"poke", "peek"}
               => /\ Len(e.log) = 2
                  /\ e.log[1] = <<"MC", e.t0, e.addr, 0>>
                  /\ e.log[2][1] = (IF e.op = "poke" THEN "MW" ELSE "MR")
                  /\ e.log[2][2] = e.t1
                  /\ e.log[2][3] = e.addr
            /\ e.op \in {"peek", "peekNoContend"} => e.mem1 = e.mem0
            /\ e.op = "peekNoContend" => e.t1 = e.t0

C8_Witness ==
    /\ Len(hist) = 2
    /\ hist[1].op = "poke" /\ hist[1].addr = 16384
    /\ hist[1].t0 = 14335 /\ hist[1].t1 = 14344
    /\ hist[2].op = "peek" /\ hist[2].addr = 32767
    /\ hist[2].t0 = 14344 /\ hist[2].t1 = 14352

\* C9 (SpecMem): memoryPeek16(addr) returns mem[addr] + 256 * mem[addr + 1 mod
\* 65536] and leaves the counter where a timed peek at addr followed by a timed
\* peek at addr + 1 leaves it.
C9_TwoPeeks(e) ==
    LET s0 == [mem |-> e.mem0, t |-> e.t0, log |-> <<>>, reads |-> <<>>,
               ub |-> e.ub, ord |-> "lohi"]
    IN  memoryPeek(memoryPeek(s0, e.addr), (e.addr + 1) % 65536).t

C9_Peek16 ==
    \A i \in 1 .. Len(hist) :
        LET e == hist[i]
        IN  e.op = "peek16"
            => /\ e.ret = MemRead(e.mem0, e.addr)
                          + 256 * MemRead(e.mem0, (e.addr + 1) % 65536)
               /\ e.t1 = C9_TwoPeeks(e)

\* C10 (SpecMem): memoryPoke16(addr, w) is a timed poke of the low byte of w at
\* addr and then one of the high byte at addr + 1 mod 65536; with both addresses
\* in RAM a following memoryPeek16(addr) returns w.
C10_Poke16 ==
    /\ \A i \in 1 .. Len(hist) :
          LET e == hist[i]
          IN  e.op = "poke16"
              => /\ Len(e.log) = 4
                 /\ e.log[1] = <<"MC", e.t0, e.addr, 0>>
                 /\ e.log[2][1] = "MW" /\ e.log[2][3] = e.addr
                 /\ e.log[2][4] = e.val % 256
                 /\ e.log[3] = <<"MC", e.log[2][2], (e.addr + 1) % 65536, 0>>
                 /\ e.log[4] = <<"MW", e.t1, (e.addr + 1) % 65536, e.val \div 256>>
    /\ \A i \in 1 .. Len(hist) - 1 :
          LET p == hist[i]
              q == hist[i + 1]
          IN  (/\ p.op = "poke16" /\ q.op = "peek16" /\ q.addr = p.addr
               /\ p.addr >= 16384 /\ (p.addr + 1) % 65536 >= 16384)
              => q.ret = p.val

C10_Witness ==
    /\ Len(hist) = 2
    /\ hist[1].op = "poke16" /\ hist[1].addr = 32767 /\ hist[1].val = 4660
    /\ hist[2].op = "peek16" /\ hist[2].addr = 32767 /\ hist[2].ret = 4660

\* C11 (SpecMem): memoryLoad(address, buffer, size) puts the first
\* min(size, 65536 - address) bytes of the buffer at address and the addresses
\* after it, below 0x4000 as well, touches no byte outside 0 .. 0xFFFF, leaves
\* every other byte of memory as it was, and leaves the T-state counter alone.
C11_Load ==
    \A i \in 1 .. Len(hist) :
        LET e == hist[i]
            count == Min(e.n, 65536 - e.addr)
        IN  e.op = "load"
            => /\ DOMAIN e.mem1 \subseteq 0 .. 65535
               /\ \A a \in DOMAIN e.mem0 \cup DOMAIN e.mem1
                             \cup (e.addr .. e.addr + count - 1) :
                     MemRead(e.mem1, a) =
                        IF a >= e.addr /\ a < e.addr + count
                        THEN e.val[a - e.addr + 1]
                        ELSE MemRead(e.mem0, a)
               /\ e.t1 = e.t0

\* A load of three bytes at 0xFFFE stores two; one of two bytes at 0x3FFF
\* stores one in the ROM and one in RAM.
C11_Witness ==
    /\ Len(hist) = 2
    /\ hist[1].op = "load" /\ hist[1].addr = 65534 /\ hist[1].n = 3
    /\ MemRead(hist[1].mem1, 65534) = 7 /\ MemRead(hist[1].mem1, 65535) = 8
    /\ hist[2].op = "load" /\ hist[2].addr = 16383 /\ hist[2].n = 2
    /\ MemRead(hist[2].mem1, 16383) = 7 /\ MemRead(hist[2].mem1, 16384) = 8

\* The machine as the z80Step that has just run found it.
Before ==
    [af |-> last.regs0.af, bc |-> last.regs0.bc, de |-> last.regs0.de,
     hl |-> last.regs0.hl, sp |-> last.regs0.sp, pc |-> last.regs0.pc,
     ix |-> last.regs0.ix, iy |-> last.regs0.iy, ir |-> last.regs0.ir,
     af_ |-> last.regs0.af_, bc_ |-> last.regs0.bc_, de_ |-> last.regs0.de_,
     hl_ |-> last.regs0.hl_, m |-> last.regs0.m, halt |-> last.regs0.halt,
     iff1 |-> last.regs0.iff1, iff2 |-> last.regs0.iff2, im |-> last.regs0.im,
     lastOpcodeWasEI |-> last.regs0.lastOpcodeWasEI,
     mem |-> last.mem0, t |-> last.t0, log |-> <<>>, reads |-> <<>>,
     ub |-> last.ub, ord |-> last.ord, inb |-> last.inb,
     fetches |-> <<>>, pos |-> "idle"]

\* A z80Step has run to its end.
StepDone == steps > 0 /\ last.pos = "idle"

\* The bytes of the instruction the z80Step that has just run began with.
OpByte(k) == MemRead(last.mem0, U16(last.regs0.pc + k))

\* The opcodes that the Z80 documentation gives a form with IX or IY for: those
\* that name HL, H, L or (HL), but for EX DE,HL, EXX and the ED page.
HasIndexForm(op) ==
    \/ op \in {9, 25, 41, 57, 33, 34, 35, 36, 37, 38, 42, 43, 44, 45, 46, 52, 53, 54}
    \/ /\ op \in 64 .. 127
       /\ op # 118
       /\ ((op \div 8) % 8 \in {4, 5, 6} \/ op % 8 \in {4, 5, 6})
    \/ op \in 128 .. 191 /\ op % 8 \in {4, 5, 6}
    \/ op \in {203, 225, 227, 229, 233, 249}

\* C12 (Spec), as the claim has it: a z80Step of DD op or FD op, op with no IX/IY
\* form, ends with the registers other than R, the memory and the flags that
\* the z80Step of op alone ends with, R one more and the T-state counter 4 more.
C12_PrefixAdds4 ==
    (/\ StepDone
     /\ OpByte(0) \in {221, 253}
     /\ ~HasIndexForm(OpByte(1))
     /\ Len(last.fetches) = 2)
    => LET ref == z80Step([Before EXCEPT !.pc = U16(last.regs0.pc + 1)])
       IN  /\ [regs EXCEPT !.ir = 0] = [Z80Of(ref) EXCEPT !.ir = 0]
           /\ HI(regs.ir) = HI(ref.ir)
           /\ LO(regs.ir) = U8(LO(ref.ir) + 1)
           /\ mem = ref.mem
           /\ tState = ref.t + 4

\* C12 (Spec), amended: after the fetch of a prefix DD or FD, the part of the
\* step that meets an opcode with no IX/IY form ends as a z80Step of that opcode
\* from the state the prefix fetch left does, and leaves IX and IY as they were.
C12_PrefixFallThrough ==
    [][(/\ last.pos \in {"ix", "iy"}
        /\ ~HasIndexForm(MemRead(mem, regs.pc)))
       => LET ref == z80Step([Machine EXCEPT !.pos = "idle"])
          IN  /\ regs' = Z80Of(ref)
              /\ mem' = ref.mem
              /\ tState' = ref.t
              /\ last'.pos = ref.pos
              /\ regs'.ix = regs.ix
              /\ regs'.iy = regs.iy]_vars

\* FD 01 05 80: LD BC,0x8005 behind a prefix.
C12_Witness ==
    /\ StepDone
    /\ OpByte(0) = 253 /\ OpByte(1) = 1
    /\ Len(last.fetches) = 2
    /\ regs.bc = 32773
    /\ regs.pc = U16(last.regs0.pc + 4)
    /\ regs.iy = last.regs0.iy

\* The machine with the values of IX and IY exchanged.
ExchangeIndex(s) == [s EXCEPT !.ix = s.iy, !.iy = s.ix]

\* C13 (Spec): the part of a step behind the prefix FD ends with the registers,
\* flags, MEMPTR, memory and T-state counter that the same bytes behind the
\* prefix DD give from the state with IX and IY exchanged, once they are
\* exchanged back.
C13_IndexSymmetry ==
    [][last.pos = "iy"
       => LET ref == ExchangeIndex(
                        z80StepIndex(ExchangeIndex([Machine EXCEPT !.pos = "ix"]), "ix"))
          IN  /\ regs' = Z80Of(ref)
              /\ mem' = ref.mem
              /\ tState' = ref.t]_vars

\* The condition cc of JP cc, CALL cc and RET cc (NZ, Z, NC, C, PO, PE, P, M)
\* on the flag byte f.
ConditionHolds(cc, f) ==
    CASE cc = 0 -> BitAnd(f, 64) = 0
      [] cc = 1 -> BitAnd(f, 64) # 0
      [] cc = 2 -> BitAnd(f, 1) = 0
      [] cc = 3 -> BitAnd(f, 1) # 0
      [] cc = 4 -> BitAnd(f, 4) = 0
      [] cc = 5 -> BitAnd(f, 4) # 0
      [] cc = 6 -> BitAnd(f, 128) = 0
      [] cc = 7 -> BitAnd(f, 128) # 0

\* The T-states the Z80 documentation gives for the unprefixed opcode op, run
\* with the flag byte f and with b in the register B; 0 for the prefixes and
\* for IN A,(n) and OUT (n),A.
DocumentedTStates(op, f, b) ==
    LET x == op \div 64
        y == (op \div 8) % 8
        z == op % 8
    IN  CASE op \in {203, 221, 237, 253, 211, 219} -> 0
          [] op = 16 -> IF (b + 255) % 256 # 0 THEN 13 ELSE 8
          [] op = 24 -> 12
          [] op \in {32, 40, 48, 56} -> IF ConditionHolds(y - 4, f) THEN 12 ELSE 7
          [] op \in {1, 17, 33, 49} -> 10
          [] op \in {9, 25, 41, 57} -> 11
          [] op \in {2, 18, 10, 26} -> 7
          [] op \in {34, 42} -> 16
          [] op \in {50, 58} -> 13
          [] x = 0 /\ z = 3 -> 6
          [] x = 0 /\ z \in {4, 5} -> IF y = 6 THEN 11 ELSE 4
          [] x = 0 /\ z = 6 -> IF y = 6 THEN 10 ELSE 7
          [] x = 1 -> IF op # 118 /\ (y = 6 \/ z = 6) THEN 7 ELSE 4
          [] x = 2 -> IF z = 6 THEN 7 ELSE 4
          [] x = 3 /\ z = 0 -> IF ConditionHolds(y, f) THEN 11 ELSE 5
          [] op \in {193, 209, 225, 241, 201} -> 10
          [] op = 249 -> 6
          [] x = 3 /\ z = 2 -> 10
          [] op = 195 -> 10
          [] op = 227 -> 19
          [] x = 3 /\ z = 4 -> IF ConditionHolds(y, f) THEN 17 ELSE 10
          [] op \in {197, 213, 229, 245} -> 11
          [] op = 205 -> 17
          [] x = 3 /\ z = 6 -> 7
          [] x = 3 /\ z = 7 -> 11
          [] OTHER -> 4

\* None of the addresses the step has contended on is in 0x4000 .. 0x7FFF.
NoContendedAccess ==
    \A i \in 1 .. Len(last.log) :
        last.log[i][1] = "MC" => ~IsContended(last.log[i][3])

\* C14 (Spec): a z80Step of an unprefixed opcode other than IN A,(n) and
\* OUT (n),A that accesses no address in 0x4000 .. 0x7FFF advances the T-state
\* counter by the count the Z80 documentation gives for the opcode.
C14_TStates ==
    (/\ StepDone
     /\ DocumentedTStates(OpByte(0), 0, 0) # 0
     /\ NoContendedAccess)
    => tState - last.t0
          = DocumentedTStates(OpByte(0), LO(last.regs0.af), HI(last.regs0.bc))

\* C15 (Spec): the T-state counter never goes down: every part of a z80Step,
\* each with its opcode fetch, leaves it at least 4 higher, and the T-states
\* at which the step's memory operations are logged never go down either.
C15_Monotonic ==
    [][/\ tState' >= tState + 4
       /\ \A i \in 1 .. Len(last'.log) - 1 : last'.log[i][2] <= last'.log[i + 1][2]
       /\ Len(last'.log) > 0
          => /\ last'.log[1][2] = last'.t0
             /\ last'.log[Len(last'.log)][2] <= tState']_vars

\* The second z80Step of a run is a NOP away from contended memory and takes
\* the counter 4 further.
C15_Witness ==
    /\ StepDone
    /\ OpByte(0) = 0
    /\ tState = last.t0 + 4
    /\ steps = 2

\* C16 (Spec): a z80Step that fetches HALT at a, the first or a later one, ends
\* with the halt flag set and PC = a, changes no register but R and no memory,
\* and takes 4 T-states and the contention of the fetch at a.
C16_Halt ==
    (/\ StepDone
     /\ (OpByte(0) = 118 \/ last.regs0.halt))
    => /\ OpByte(0) = 118
       /\ regs.halt
       /\ regs.pc = last.regs0.pc
       /\ [regs EXCEPT !.ir = 0, !.halt = TRUE] = [last.regs0 EXCEPT !.ir = 0, !.halt = TRUE]
       /\ HI(regs.ir) = HI(last.regs0.ir)
       /\ mem = last.mem0
       /\ tState = last.t0 + 4
                   + (IF IsContended(last.regs0.pc)
                      THEN ExpectedContention(last.t0) ELSE 0)

\* The second z80Step on a HALT in contended memory.
C16_Witness ==
    /\ StepDone
    /\ steps = 2
    /\ last.regs0.halt
    /\ regs.halt
    /\ regs.pc = 16640
    /\ last.t0 = 14345
    /\ tState = 14353

\* The last entry of the step's log is the read of the opcode op: an
\* instruction of the opcode op that accesses no memory has just run.
JustFetched(op) ==
    /\ Len(last.log) > 0
    /\ last.log[Len(last.log)][1] = "MR"
    /\ last.log[Len(last.log)][4] = op

\* C17 (Spec): lastOpcodeWasEI is true at the end of a z80Step only when the
\* instruction the step has run is EI: EI alone sets it, and it is false
\* again after the instruction that follows the EI.
C17_EIDelay ==
    StepDone => (regs.lastOpcodeWasEI => JustFetched(251))

\* The step has done nothing but fetch opcodes, and Fetched(k) is the k-th of
\* them.
OnlyFetches == Len(last.log) = 2 * Len(last.fetches)
Fetched(k) == last.log[2 * k][4]

\* The instruction the step has run is ED 46, 4E, 56, 5E, 66, 6E, 76 or 7E.
RanIM ==
    /\ OnlyFetches
    /\ Len(last.fetches) >= 2
    /\ Fetched(Len(last.fetches) - 1) = 237
    /\ Fetched(Len(last.fetches)) \in {70, 78, 86, 94, 102, 110, 118, 126}

\* C18 (Spec): IM is 0, 1 or 2 in every state; ED 46, 4E, 56, 5E, 66, 6E, 76, 7E
\* set it to 0, 0, 1, 2, 0, 0, 1, 2 and no other instruction changes it.
C18_InterruptMode ==
    /\ regs.im \in {0, 1, 2}
    /\ StepDone =>
          regs.im = IF RanIM
                    THEN <<0, 0, 1, 2, 0, 0, 1, 2>>[
                            ((Fetched(Len(last.fetches)) - 70) \div 8) + 1]
                    ELSE last.regs0.im

\* ED 5E has set IM 2.
C18_Witness ==
    /\ StepDone
    /\ RanIM
    /\ OpByte(0) = 237 /\ OpByte(1) = 94
    /\ last.regs0.im = 0
    /\ regs.im = 2

\* C19 (Spec): a z80Step returns after a bounded number of opcode fetches,
\* whatever the memory holds: never more than the four bytes of the longest
\* instruction.
C19_BoundedFetches == Len(last.fetches) <= 4

\* C20 (Spec): the registers, memory and T-state counter a z80Step ends with are
\* those that every other run of the step from the same registers, memory and
\* T-state counter with the same input bytes ends with, whichever order
\* memoryPeek16 reads in and whatever lies behind the contention table.
C20_Deterministic ==
    StepDone
    => \A ub \in UBBytes, ord \in PeekOrders :
          LET r == z80StepWhole(z80Step([Before EXCEPT !.ub = ub, !.ord = ord]))
          IN  /\ Z80Of(r) = regs
              /\ r.mem = mem
              /\ r.t = tState


\* The machine as the instruction of the last turn of update left it, before
\* the end of the frame was looked at.
Ran == z80StepWhole(z80Step(Before))

\* The address the interrupt pushes: PC, moved past the HALT when halted.
ResumePc(s) == IF s.halt THEN U16(s.pc + 1) ELSE s.pc

\* C21: the maskable interrupt is accepted only between instructions, with IFF1
\* set and not directly after EI: then HALT is cleared and PC is past the HALT,
\* IFF1 and IFF2 are cleared, PC is pushed, and PC is 0x0038 after 13 T-states
\* in IM 0 and 1, or the word at (I<<8 | 0xFF) after 19 T-states in IM 2; with
\* IFF1 clear or directly after EI the instruction's result stands untouched.
C21_Interrupt ==
    steps > 0 =>
        IF Ran.t >= FrameTime /\ Ran.iff1 /\ ~Ran.lastOpcodeWasEI
        THEN /\ ~regs.halt /\ ~regs.iff1 /\ ~regs.iff2
             /\ regs.sp = U16(Ran.sp - 2)
             /\ MemRead(mem, U16(Ran.sp - 1)) = ResumePc(Ran) \div 256
             /\ MemRead(mem, U16(Ran.sp - 2)) = ResumePc(Ran) % 256
             /\ Ran.im \in {0, 1} => regs.pc = 56 /\ tState = Ran.t - FrameTime + 13
             /\ Ran.im = 2 =>
                    /\ regs.pc = MemRead(Ran.mem, 256 * (Ran.ir \div 256) + 255)
                                 + 256 * MemRead(Ran.mem, 256 * (Ran.ir \div 256) + 256)
                    /\ tState = Ran.t - FrameTime + 19
        ELSE /\ regs = Z80Of(Ran)
             /\ mem = Ran.mem

\* An interrupt taken in IM 2 out of HALT: PC is the vector's word 0x1234.
C21_Witness ==
    /\ steps > 0
    /\ Ran.t >= FrameTime /\ Ran.halt /\ Ran.im = 2
    /\ regs.pc = 4660 /\ ~regs.halt

\* An EI that ended the frame: the interrupt is not taken.
C21_WitnessEI ==
    /\ steps > 0
    /\ Ran.t >= FrameTime /\ Ran.iff1 /\ Ran.lastOpcodeWasEI
    /\ regs.iff1 /\ regs.pc = U16(last.regs0.pc + 1)


\* The T-states the interrupt at the end of the frame takes from the machine s.
InterruptTStates(s) ==
    IF s.iff1 /\ ~s.lastOpcodeWasEI THEN (IF s.im = 2 THEN 19 ELSE 13) ELSE 0

\* The machine as the instruction at PC leaves it.
Upcoming == z80StepWhole(z80Step([StepStart EXCEPT !.pos = "idle"]))

\* C22: a turn of update whose instruction takes the T-state counter to 69,888
\* or beyond takes exactly 69,888 off it, so that the overshoot is carried into
\* the next frame and the counter the frame starts with is below 69,888, and
\* reports the frame once; no other turn and no other operation changes the
\* number of frames reported.
C22_FrameEnd ==
    [][IF steps' > steps
       THEN IF Upcoming.t >= FrameTime
            THEN /\ tState' = Upcoming.t - FrameTime + InterruptTStates(Upcoming)
                 /\ tState' \in 0 .. FrameTime - 1
                 /\ host'.frames = host.frames + 1
            ELSE /\ tState' = Upcoming.t
                 /\ host'.frames = host.frames
       ELSE /\ tState' = tState
            /\ host'.frames = host.frames]_vars

\* A frame has ended with an overshoot and no interrupt taken: the counter is
\* the overshoot.
C22_Witness ==
    /\ steps > 0
    /\ host.frames = 1
    /\ Ran.t > FrameTime
    /\ InterruptTStates(Ran) = 0
    /\ tState = Ran.t - FrameTime
    /\ tState > 0


\* A turn of update's loop has run: an instruction was executed or a hit
\* reported.
Turn == steps' # steps \/ host'.hits # host.hits

\* PC is the address of a breakpoint of the set.
AtBreakpoint == \E b \in host.breakpoints : b.address = regs.pc

\* C23: a turn of update that finds PC at a breakpoint reports the hit, sets
\* the run mode to Stopped and executes nothing, and leaves in the set all but
\* the Temporary breakpoint at PC, so that a User breakpoint stays; any other
\* turn executes one instruction, reports nothing and leaves the set alone.
C23_Breakpoint ==
    [][Turn =>
         IF AtBreakpoint
         THEN /\ host'.hits = host.hits + 1
              /\ host'.mode = "Stopped"
              /\ regs' = regs /\ mem' = mem /\ tState' = tState /\ steps' = steps
              /\ host'.breakpoints =
                     {b \in host.breakpoints : b.type = "User" \/ b.address # regs.pc}
         ELSE /\ steps' = steps + 1
              /\ host'.hits = host.hits
              /\ host'.mode = host.mode
              /\ host'.breakpoints = host.breakpoints]_vars

\* Two hits, the second after one instruction: the machine is stopped and the
\* User breakpoint at PC is still in the set.
C23_Witness ==
    /\ host.hits = 2
    /\ steps = 1
    /\ host.mode = "Stopped"
    /\ regs.pc = 32769
    /\ host.breakpoints = {[type |-> "User", address |-> 32769]}


\* C24: a taken relative jump (JR d, JR cc,d with cc true, DJNZ d with B other
\* than 1 before the step) sets PC to the address after the displacement byte
\* plus the byte read as a signed number, modulo 65536, and MEMPTR to that PC;
\* a JR cc or DJNZ that is not taken sets PC to the address after the
\* displacement byte.
C24_RelativeJump ==
    (steps > 0 /\ OpByte(0) \in {16, 24, 32, 40, 48, 56}) =>
        LET op == OpByte(0)
            d == OpByte(1)
            after == U16(last.regs0.pc + 2)
            f == last.regs0.af % 256
            taken == CASE op = 24 -> TRUE
                       [] op = 16 -> last.regs0.bc \div 256 # 1
                       [] op = 32 -> (f \div 64) % 2 = 0
                       [] op = 40 -> (f \div 64) % 2 = 1
                       [] op = 48 -> f % 2 = 0
                       [] op = 56 -> f % 2 = 1
        IN  IF taken
            THEN /\ regs.pc = (after + (IF d < 128 THEN d ELSE d - 256) + 65536) % 65536
                 /\ regs.m = regs.pc
            ELSE regs.pc = after


\* The bytes that have no instruction on the ED page.
NoEDInstruction(op) ==
    \/ op \in 0 .. 63
    \/ op \in 192 .. 255
    \/ op \in (128 .. 191) \ ((160 .. 163) \cup (168 .. 171) \cup (176 .. 179) \cup (184 .. 187))

\* C25: a z80Step of ED and a byte that has no instruction on the ED page
\* fetches these two bytes and no more, moves PC by 2 and the low seven bits of
\* R by 2, takes 8 T-states where no access is contended, and changes no other
\* register, flag, MEMPTR, IFF, IM or halt value and no byte of memory.
C25_EDNoOp ==
    (/\ StepDone
     /\ OpByte(0) = 237
     /\ NoEDInstruction(OpByte(1)))
    => /\ Len(last.fetches) = 2
       /\ [regs EXCEPT !.ir = 0] =
              [last.regs0 EXCEPT !.pc = U16(last.regs0.pc + 2), !.ir = 0]
       /\ regs.ir \div 256 = last.regs0.ir \div 256
       /\ regs.ir % 128 = (last.regs0.ir + 2) % 128
       /\ mem = last.mem0
       /\ NoContendedAccess => tState = last.t0 + 8


\* The z80Step that has just run was of ED and the byte op, and was the last
\* of the program's block instruction, which began the run at T-state 0 with
\* BC = steps.
BlockDone(op) ==
    /\ steps > 0
    /\ OpByte(0) = 237 /\ OpByte(1) = op
    /\ last.regs0.pc = 32768
    /\ regs.bc = 0

\* C26: a whole LDIR of n bytes in memory that is not contended takes
\* 21 + 16 * (n - 1) T-states, 69 for n = 4.
C26_LdirTStates == BlockDone(176) => tState = 21 + 16 * (steps - 1)

\* C26, amended: a whole LDIR of n bytes in memory that is not contended takes
\* 21 * (n - 1) + 16 T-states, 79 for n = 4: 21 for each step that repeats and
\* 16 for the last.
C26_LdirTStatesAmended == BlockDone(176) => tState = 21 * (steps - 1) + 16

\* LDIR of the four bytes at 0xC000 has ended after 79 T-states.
C26_Witness ==
    /\ BlockDone(176)
    /\ steps = 4
    /\ regs.hl = 49156 /\ regs.de = 53252
    /\ tState = 79


\* The direction of the block instruction ED op: 1 for LDIR and CPIR, -1 for
\* LDDR and CPDR.
BlockDir(op) == IF op \in {176, 177} THEN 1 ELSE -1

\* C27: a z80Step of LDIR or LDDR with BC not 0 copies the byte at HL to DE and
\* no other, takes 1 off BC and moves HL and DE by 1 up (LDIR) or down (LDDR);
\* with the new BC not 0 PC is back at the ED prefix, and with it 0 PC is past
\* the instruction, P/V is 0, HL and DE have moved by the number of steps and
\* the bytes are copied; N and H are 0, S, Z and C are as before, and bits 3
\* and 5 of F are bit 3 and bit 1 of the byte copied plus A.
C27_BlockLoad ==
    (/\ steps > 0
     /\ OpByte(0) = 237 /\ OpByte(1) \in {176, 184}
     /\ last.regs0.pc = 32768
     /\ last.regs0.bc >= 1)
    => LET r0 == last.regs0
           dir == BlockDir(OpByte(1))
           v == MemRead(last.mem0, r0.hl)
           sum == (v + r0.af \div 256) % 256
           f == regs.af % 256
       IN  /\ MemRead(mem, r0.de) = v
           /\ \A a \in (DOMAIN mem \cup DOMAIN last.mem0) \ {r0.de} :
                  MemRead(mem, a) = MemRead(last.mem0, a)
           /\ regs.bc = r0.bc - 1
           /\ regs.hl = U16(r0.hl + dir)
           /\ regs.de = U16(r0.de + dir)
           /\ regs.af \div 256 = r0.af \div 256
           /\ regs.pc = IF regs.bc # 0 THEN r0.pc ELSE U16(r0.pc + 2)
           /\ (f \div 4) % 2 = (IF regs.bc # 0 THEN 1 ELSE 0)
           /\ (f \div 2) % 2 = 0
           /\ (f \div 16) % 2 = 0
           /\ f % 2 = r0.af % 2
           /\ (f \div 64) % 4 = (r0.af \div 64) % 4
           /\ (f \div 8) % 2 = (sum \div 8) % 2
           /\ (f \div 32) % 2 = (sum \div 2) % 2
           /\ regs.bc = 0 =>
                  \A i \in 1 .. steps :
                      /\ MemRead(mem, U16(regs.hl - dir * i)) = BlockBytes[U16(regs.hl - dir * i) - 49151]
                      /\ MemRead(mem, U16(regs.de - dir * i)) = BlockBytes[U16(regs.hl - dir * i) - 49151]

\* LDDR of the four bytes ending at 0xC003 is done: the last byte copied is
\* the 8 at 0xC000, A is 10, and bit 1 of 18 is in bit 5 of F.
C27_Witness ==
    /\ steps = 4
    /\ OpByte(0) = 237 /\ OpByte(1) = 184
    /\ regs.bc = 0 /\ regs.hl = 49151 /\ regs.de = 53247
    /\ regs.pc = 32770
    /\ MemRead(mem, 53248) = 8 /\ MemRead(mem, 53251) = 255
    /\ regs.af \div 256 = 10
    /\ regs.af % 256 = 215 - 4 - 2 - 16 + 32

\* C28: a z80Step of CPIR or CPDR repeats, with PC back at the ED prefix and 21
\* T-states, exactly when the BC it leaves is not 0 and A is not the byte
\* compared; otherwise PC is past the instruction after 16 T-states. BC goes
\* down by 1 at each step, so that the instruction is left in the end; Z is 1
\* exactly when the byte compared is A, P/V is 1 exactly when BC is not 0, and
\* A and the carry flag are as before.
C28_BlockCompare ==
    (/\ steps > 0
     /\ OpByte(0) = 237 /\ OpByte(1) \in {177, 185}
     /\ last.regs0.pc = 32768)
    => LET r0 == last.regs0
           v == MemRead(last.mem0, r0.hl)
           acc == r0.af \div 256
           f == regs.af % 256
           repeats == regs.bc # 0 /\ acc # v
       IN  /\ regs.bc = U16(r0.bc - 1)
           /\ regs.hl = U16(r0.hl + BlockDir(OpByte(1)))
           /\ regs.pc = IF repeats THEN r0.pc ELSE U16(r0.pc + 2)
           /\ tState = last.t0 + (IF repeats THEN 21 ELSE 16)
           /\ (f \div 64) % 2 = (IF acc = v THEN 1 ELSE 0)
           /\ (f \div 4) % 2 = (IF regs.bc # 0 THEN 1 ELSE 0)
           /\ regs.af \div 256 = acc
           /\ f % 2 = r0.af % 2
           /\ mem = last.mem0

\* CPIR with A = 40 has found the 40 at 0xC002 at its third step, with BC left.
C28_Witness ==
    /\ steps = 3
    /\ OpByte(0) = 237 /\ OpByte(1) = 177
    /\ last.regs0.hl = 49154
    /\ regs.af \div 256 = 40
    /\ regs.bc = 1
    /\ regs.pc = 32770
    /\ tState = 21 + 21 + 16


\* The number of prefix bytes DD and FD from the i-th byte of the instruction
\* on, up to the first other byte.
RECURSIVE PrefixCount(_)
PrefixCount(i) == IF OpByte(i) \in {221, 253} THEN PrefixCount(i + 1) ELSE i

\* The machine after the instruction fetches of n prefix bytes.
RECURSIVE SkipPrefixes(_, _)
SkipPrefixes(s, n) == IF n = 0 THEN s ELSE SkipPrefixes(z80FetchInstruction(s), n - 1)

\* C29: a z80Step of a run of k prefixes DD and FD and an opcode ends with the
\* registers, flags, MEMPTR and memory of the last prefix and the opcode run
\* from the same state, but for R incremented k - 1 times more, PC k - 1
\* further and 4 * (k - 1) T-states more; with the opcode CB, R is incremented
\* twice behind the last prefix's predecessors.
C29_LastPrefix ==
    (steps > 0 /\ OpByte(0) \in {221, 253}) =>
        LET k == PrefixCount(0)
            ref == z80StepWhole(z80Step([Before EXCEPT !.pc = U16(@ + k - 1)]))
        IN  /\ [regs EXCEPT !.ir = 0] = [Z80Of(ref) EXCEPT !.ir = 0]
            /\ regs.ir \div 256 = ref.ir \div 256
            /\ regs.ir % 128 = (ref.ir + k - 1) % 128
            /\ mem = ref.mem
            /\ tState = ref.t + 4 * (k - 1)
            /\ OpByte(k) = 203 => regs.ir % 128 = (last.regs0.ir + k + 1) % 128

\* C29, amended: a z80Step of a run of k prefixes DD and FD and an opcode ends
\* as the z80Step of the last prefix and the opcode does from the state that
\* the fetches of the k - 1 prefixes before it leave (PC k - 1 further, R
\* incremented k - 1 times, 4 * (k - 1) T-states later); with the opcode CB the
\* step increments R once for each prefix and once more, twice for DD CB d op.
C29_LastPrefixAmended ==
    (steps > 0 /\ OpByte(0) \in {221, 253}) =>
        LET k == PrefixCount(0)
            ref == z80StepWhole(z80Step(SkipPrefixes(Before, k - 1)))
        IN  /\ regs = Z80Of(ref)
            /\ mem = ref.mem
            /\ tState = ref.t
            /\ tState >= last.t0 + 4 * k
            /\ OpByte(k) = 203 => regs.ir % 128 = (last.regs0.ir + k + 1) % 128

\* DD FD DD 21 05 80 has loaded IX and left IY alone.
C29_Witness ==
    /\ steps = 1
    /\ OpByte(0) = 221 /\ OpByte(1) = 253 /\ OpByte(2) = 221 /\ OpByte(3) = 33
    /\ regs.ix = 32773
    /\ regs.iy = 53248
    /\ regs.pc = 32774
    /\ tState = 22


\* A byte read as a signed number.
Signed(b) == IF b < 128 THEN b ELSE b - 256

\* C30: ADD, ADC, SUB and SBC A,n leave in A the sum or difference of A, n and
\* the carry (ADC, SBC) modulo 256, with C the carry or borrow out of bit 7, H
\* the carry or borrow out of bit 3, P/V the overflow of the signed sum or
\* difference, Z set for the result 0, S and bits 3 and 5 those of the result,
\* and N 0 for ADD and ADC, 1 for SUB and SBC.
C30_AddSub ==
    (steps > 0 /\ OpByte(0) \in {198, 206, 214, 222}) =>
        LET op == OpByte(0)
            a == last.regs0.af \div 256
            b == OpByte(1)
            c == IF op \in {206, 222} THEN last.regs0.af % 2 ELSE 0
            add == op \in {198, 206}
            res == IF add THEN (a + b + c) % 256 ELSE (a - b - c + 512) % 256
            full == IF add THEN a + b + c ELSE a - b - c
            low == IF add THEN (a % 16) + (b % 16) + c ELSE (a % 16) - (b % 16) - c
            signed == IF add THEN Signed(a) + Signed(b) + c ELSE Signed(a) - Signed(b) - c
            f == regs.af % 256
        IN  /\ regs.af \div 256 = res
            /\ f % 2 = (IF full > 255 \/ full < 0 THEN 1 ELSE 0)
            /\ (f \div 2) % 2 = (IF add THEN 0 ELSE 1)
            /\ (f \div 4) % 2 = (IF signed > 127 \/ signed < -128 THEN 1 ELSE 0)
            /\ (f \div 8) % 2 = (res \div 8) % 2
            /\ (f \div 16) % 2 = (IF low > 15 \/ low < 0 THEN 1 ELSE 0)
            /\ (f \div 32) % 2 = (res \div 32) % 2
            /\ (f \div 64) % 2 = (IF res = 0 THEN 1 ELSE 0)
            /\ f \div 128 = res \div 128

\* LD A,5 and ADD A,3 have run: A is 8, and of F only bit 3, a copy of bit 3
\* of the result, is set.
C30_Witness ==
    /\ steps = 2
    /\ OpByte(0) = 198 /\ OpByte(1) = 3
    /\ last.regs0.af \div 256 = 5
    /\ regs.af = 2048 + 8


\* The number a packed BCD byte stands for, and the packed BCD byte of a
\* number in 0 .. 99.
BcdValue(b) == 10 * (b \div 16) + (b % 16)
BcdByte(n) == 16 * (n \div 10) + (n % 10)

\* C31: DAA behind ADD or ADC A,b of packed BCD bytes a and b leaves in A the
\* packed BCD byte of (a + b + c) mod 100 and C set exactly for a sum of 100 or
\* more; behind SUB or SBC it leaves that of (a - b - c) mod 100 and C set
\* exactly for a below b + c; P/V is the parity of the result and N is as the
\* addition or subtraction left it.
C31_Daa ==
    [][(/\ steps = 1
        /\ OpByte(0) \in {198, 206, 214, 222}
        /\ MemRead(mem, regs.pc) = 39
        /\ steps' = 2)
       => LET a == BcdValue(last.regs0.af \div 256)
              b == BcdValue(OpByte(1))
              c == IF OpByte(0) \in {206, 222} THEN last.regs0.af % 2 ELSE 0
              n == IF OpByte(0) \in {198, 206} THEN a + b + c ELSE a - b - c
              f == regs'.af % 256
          IN  /\ regs'.af \div 256 = BcdByte((n + 100) % 100)
              /\ f % 2 = (IF n >= 100 \/ n < 0 THEN 1 ELSE 0)
              /\ (f \div 4) % 2 = 1 - OddBits(regs'.af \div 256)
              /\ (f \div 2) % 2 = (regs.af \div 2) % 2]_vars

\* 0x15 + 0x27 is 0x3C, which DAA has made 0x42; 0x10 - 0x25 - 1 is 0xEA,
\* which DAA made 0x84 with the carry set.
C31_Witness ==
    /\ steps = 2
    /\ MemRead(mem, 32768) = 222 /\ MemRead(mem, 32769) = 37
    /\ last.regs0.af \div 256 = 234
    /\ regs.af \div 256 = 132
    /\ regs.af % 2 = 1


\* A 16-bit word read as a signed number.
Signed16(w) == IF w < 32768 THEN w ELSE w - 65536

\* The register pair that bits 4 and 5 of the opcode op select, before the step.
PairBefore(op) ==
    CASE (op \div 16) % 4 = 0 -> last.regs0.bc
      [] (op \div 16) % 4 = 1 -> last.regs0.de
      [] (op \div 16) % 4 = 2 -> last.regs0.hl
      [] (op \div 16) % 4 = 3 -> last.regs0.sp

Rotated(k, v, c) ==
    CASE k = 0 -> [v |-> (2 * v + v \div 128) % 256, out |-> v \div 128]
      [] k = 1 -> [v |-> v \div 2 + 128 * (v % 2), out |-> v % 2]
      [] k = 2 -> [v |-> (2 * v + c) % 256, out |-> v \div 128]
      [] k = 3 -> [v |-> v \div 2 + 128 * c, out |-> v % 2]
      [] k = 4 -> [v |-> (2 * v) % 256, out |-> v \div 128]
      [] k = 5 -> [v |-> v \div 2 + 128 * (v \div 128), out |-> v % 2]
      [] k = 6 -> [v |-> (2 * v + 1) % 256, out |-> v \div 128]
      [] k = 7 -> [v |-> v \div 2, out |-> v % 2]

\* The opcode at PC and the byte behind it.
NextOp(k) == MemRead(mem, U16(regs.pc + k))

\* C33: a z80Step of a rotate or shift of the CB page on B leaves in B the
\* rotated or shifted byte (SLL: shifted left with bit 0 set) and in F the bit
\* shifted out as C, H and N 0, and S, Z, P/V and bits 3 and 5 from the
\* result; RRC behind RLC and RLC behind RRC restore B, RR behind RL and RL
\* behind RR restore B and the carry; RLCA, RRCA, RLA and RRA leave S, Z and
\* P/V as they were.
C33_Rotates ==
    [][steps' = steps + 1 =>
        /\ (NextOp(0) = 203 /\ NextOp(1) % 8 = 0 /\ NextOp(1) < 64)
           => LET r == Rotated(NextOp(1) \div 8, regs.bc \div 256, regs.af % 2)
              IN  /\ regs'.bc \div 256 = r.v
                  /\ regs'.af % 256 =
                         r.out + 4 * (1 - OddBits(r.v)) + 8 * ((r.v \div 8) % 2)
                         + 32 * ((r.v \div 32) % 2) + 128 * (r.v \div 128)
                         + (IF r.v = 0 THEN 64 ELSE 0)
                  /\ regs'.af \div 256 = regs.af \div 256
        /\ (/\ steps = 1
            /\ OpByte(0) = 203 /\ NextOp(0) = 203
            /\ <<OpByte(1), NextOp(1)>> \in {<<0, 8>>, <<8, 0>>, <<16, 24>>, <<24, 16>>})
           => /\ regs'.bc = last.regs0.bc
              /\ OpByte(1) \in {16, 24} => regs'.af % 2 = last.regs0.af % 2
        /\ NextOp(0) \in {7, 15, 23, 31}
           => LET r == Rotated(NextOp(0) \div 8, regs.af \div 256, regs.af % 2)
              IN  /\ regs'.af \div 256 = r.v
                  /\ regs'.af % 2 = r.out
                  /\ (regs'.af \div 64) % 4 = (regs.af \div 64) % 4
                  /\ (regs'.af \div 4) % 2 = (regs.af \div 4) % 2]_vars

\* RL B and RR B behind it have run on 0x80 with the carry clear: B is 0x80
\* again and the carry is clear again.
C33_Witness ==
    /\ steps = 2
    /\ OpByte(0) = 203 /\ OpByte(1) = 24
    /\ MemRead(mem, 32769) = 16
    /\ last.regs0.bc = 0 /\ last.regs0.af % 2 = 1
    /\ regs.bc = 32768 /\ regs.af % 2 = 0


\* The 8-bit register that the index z of an opcode names, before the step.
RegBefore(z) ==
    CASE z = 0 -> last.regs0.bc \div 256 [] z = 1 -> last.regs0.bc % 256
      [] z = 2 -> last.regs0.de \div 256 [] z = 3 -> last.regs0.de % 256
      [] z = 4 -> last.regs0.hl \div 256 [] z = 5 -> last.regs0.hl % 256
      [] z = 7 -> last.regs0.af \div 256

\* The flags BIT n leaves for the operand v, but for S: bits 3 and 5 are those
\* of the byte from.
BitFlags(n, v, from) ==
    /\ (regs.af \div 64) % 2 = 1 - ((v \div (2 ^ n)) % 2)
    /\ (regs.af \div 4) % 2 = 1 - ((v \div (2 ^ n)) % 2)
    /\ (regs.af \div 16) % 2 = 1
    /\ (regs.af \div 2) % 2 = 0
    /\ regs.af % 2 = last.regs0.af % 2
    /\ (regs.af \div 8) % 2 = (from \div 8) % 2
    /\ (regs.af \div 32) % 2 = (from \div 32) % 2

\* The step changed nothing but PC, R and F, and MEMPTR where told.
OnlyFlags(mp) ==
    /\ mem = last.mem0
    /\ [regs EXCEPT !.pc = 0, !.ir = 0, !.af = 0, !.m = 0]
           = [last.regs0 EXCEPT !.pc = 0, !.ir = 0, !.af = 0, !.m = 0]
    /\ regs.af \div 256 = last.regs0.af \div 256
    /\ regs.m = mp

\* C34: BIT n,x sets Z and P/V to the complement of bit n of the operand, H to
\* 1 and N to 0, and leaves C, the operand and memory alone; bits 3 and 5 of F
\* are those of the operand for a register, and those of the high byte of
\* MEMPTR for (HL), where MEMPTR is left alone, and for (II+d), where MEMPTR is
\* II plus the signed d.
C34_Bit ==
    /\ (steps > 0 /\ OpByte(0) = 203 /\ OpByte(1) \in 64 .. 127)
       => LET n == (OpByte(1) \div 8) % 8
              z == OpByte(1) % 8
          IN  IF z = 6
              THEN /\ BitFlags(n, MemRead(last.mem0, last.regs0.hl), last.regs0.m \div 256)
                   /\ OnlyFlags(last.regs0.m)
              ELSE /\ BitFlags(n, RegBefore(z), RegBefore(z))
                   /\ OnlyFlags(last.regs0.m)
    /\ (/\ steps > 0
        /\ OpByte(0) \in {221, 253} /\ OpByte(1) = 203 /\ OpByte(3) \in 64 .. 127)
       => LET n == (OpByte(3) \div 8) % 8
              ii == IF OpByte(0) = 221 THEN last.regs0.ix ELSE last.regs0.iy
              addr == U16(ii + Signed(OpByte(2)))
          IN  /\ BitFlags(n, MemRead(last.mem0, addr), addr \div 256)
              /\ OnlyFlags(addr)

\* DD CB 05 46 with IX = 0x4000 and 0xFE at 0x4005: Z, H and P/V are set, N
\* and bits 3 and 5 are clear.
C34_Witness ==
    /\ steps = 1
    /\ OpByte(0) = 221 /\ OpByte(1) = 203 /\ OpByte(2) = 5 /\ OpByte(3) = 70
    /\ last.regs0.ix = 16384
    /\ MemRead(mem, 16389) = 254
    /\ regs.m = 16389
    /\ regs.af % 256 = 64 + 16 + 4


\* The word in the second and third byte of the instruction.
OpWord == OpByte(1) + 256 * OpByte(2)

\* What C35 says of the instructions other than OUTI, OTIR, OUTD and OTDR:
\* LD (nn),A, IN A,(n) and OUT (n),A leave A in MEMPTR's high byte and the low
\* byte of nn + 1 or n + 1 in its low byte; CALL nn, CALL cc,nn and JP cc,nn
\* leave nn, taken or not; INI and INIR leave BC + 1 and IND and INDR BC - 1,
\* for the BC before the step; register loads, 8-bit arithmetic on registers,
\* INC r, DEC r, EX AF,AF', EX DE,HL and EXX leave MEMPTR alone.
MemptrRules ==
    LET op == OpByte(0)
        acc == last.regs0.af \div 256
    IN  /\ op = 50 => regs.m = 256 * acc + ((OpWord + 1) % 256)
        /\ op \in {211, 219} => regs.m = 256 * acc + ((OpByte(1) + 1) % 256)
        /\ (op = 205 \/ (op >= 192 /\ op % 8 \in {2, 4})) => regs.m = OpWord
        /\ (op = 237 /\ OpByte(1) \in {162, 178}) => regs.m = U16(last.regs0.bc + 1)
        /\ (op = 237 /\ OpByte(1) \in {170, 186}) => regs.m = U16(last.regs0.bc - 1)
        /\ (\/ op \in 64 .. 191 /\ op % 8 # 6 /\ (op < 128 => (op \div 8) % 8 # 6)
            \/ op < 64 /\ op % 8 \in {4, 5} /\ op \div 8 # 6
            \/ op \in {8, 235, 217})
           => regs.m = last.regs0.m

\* C35: MEMPTR after LD (nn),A, CALL, JP cc, IN A,(n), OUT (n),A, the block
\* inputs and the instructions that leave it alone is as said above, and OUTI
\* and OTIR leave BC + 1, OUTD and OTDR BC - 1, for the BC before the step.
C35_Memptr ==
    steps > 0 =>
        /\ MemptrRules
        /\ (OpByte(0) = 237 /\ OpByte(1) \in {163, 179}) => regs.m = U16(last.regs0.bc + 1)
        /\ (OpByte(0) = 237 /\ OpByte(1) \in {171, 187}) => regs.m = U16(last.regs0.bc - 1)

\* C35, amended: the same, with OUTI and OTIR leaving BC + 1 and OUTD and OTDR
\* BC - 1 for the BC that the step leaves, B decremented.
C35_MemptrAmended ==
    steps > 0 =>
        /\ MemptrRules
        /\ (OpByte(0) = 237 /\ OpByte(1) \in {163, 179}) => regs.m = U16(regs.bc + 1)
        /\ (OpByte(0) = 237 /\ OpByte(1) \in {171, 187}) => regs.m = U16(regs.bc - 1)

\* OTIR with BC = 0x02FF has run once: B is 1 and MEMPTR is 0x01FF + 1.
C35_Witness ==
    /\ steps = 1
    /\ OpByte(0) = 237 /\ OpByte(1) = 179
    /\ last.regs0.bc = 767
    /\ regs.bc = 511
    /\ regs.m = 512


\* The memory writes of the step that has just run, in their order: address
\* and byte.
Writes ==
    LET RECURSIVE From(_)
        From(i) == IF i > Len(last.log) THEN <<>>
                   ELSE IF last.log[i][1] = "MW"
                        THEN <<<<last.log[i][3], last.log[i][4]>>>> \o From(i + 1)
                        ELSE From(i + 1)
    IN  From(1)

\* Both bytes below the stack pointer sp are in RAM.
StackInRam(sp) == U16(sp - 1) >= 16384 /\ U16(sp - 2) >= 16384

\* C36: a push writes the high byte of the word at SP-1 and then the low byte
\* at SP-2 and leaves SP 2 lower; with both addresses in RAM the pop behind
\* the push returns the word and restores SP, for SP = 0 as well, and the RET
\* behind a CALL nn returns to the address after the CALL with SP restored.
C36_Stack ==
    [][steps' = steps + 1 =>
        /\ NextOp(0) \in {197, 245, 205}
           => LET x == CASE NextOp(0) = 197 -> regs.bc
                         [] NextOp(0) = 245 -> regs.af
                         [] NextOp(0) = 205 -> U16(regs.pc + 3)
              IN  /\ regs'.sp = U16(regs.sp - 2)
                  /\ Writes' = <<<<U16(regs.sp - 1), x \div 256>>,
                                 <<U16(regs.sp - 2), x % 256>>>>
        /\ (/\ steps > 0 /\ StackInRam(last.regs0.sp)
            /\ <<OpByte(0), NextOp(0)>> \in {<<197, 209>>, <<245, 225>>})
           => /\ regs'.sp = last.regs0.sp
              /\ OpByte(0) = 197 => regs'.de = last.regs0.bc
              /\ OpByte(0) = 245 => regs'.hl = last.regs0.af
        /\ (/\ steps > 0 /\ StackInRam(last.regs0.sp)
            /\ OpByte(0) = 205 /\ NextOp(0) = 201)
           => /\ regs'.sp = last.regs0.sp
              /\ regs'.pc = U16(last.regs0.pc + 3)]_vars

\* PUSH BC and POP DE with SP = 0: the word went through 0xFFFF and 0xFFFE and
\* is in DE, and SP is 0 again.
C36_Witness ==
    /\ steps = 2
    /\ OpByte(0) = 209
    /\ regs.sp = 0
    /\ regs.bc = 4660 /\ regs.de = 4660
    /\ MemRead(mem, 65535) = 18 /\ MemRead(mem, 65534) = 52


\* The instruction the z80Step that has just run began with, behind its
\* prefixes DD and FD: EI, DI, RETN or RETI (the eight bytes of the ED page
\* with z = 5 in 40..7F), or any other.
IffInstruction ==
    LET k == PrefixCount(0)
    IN  CASE OpByte(k) = 251 -> "EI"
          [] OpByte(k) = 243 -> "DI"
          [] OpByte(k) = 237 /\ OpByte(k + 1) \in 64 .. 127 /\ OpByte(k + 1) % 8 = 5
               -> "RETN"
          [] OTHER -> "other"

\* The same, with a byte of the ED page that has no instruction there taken
\* for the unprefixed instruction z80Execute runs for it.
IffInstructionRun ==
    LET k == PrefixCount(0)
    IN  IF OpByte(k) = 237 /\ NoEDInstruction(OpByte(k + 1))
        THEN CASE OpByte(k + 1) = 251 -> "EI"
               [] OpByte(k + 1) = 243 -> "DI"
               [] OTHER -> "other"
        ELSE IffInstruction

\* What the instruction i makes of IFF1 and IFF2.
IffEffect(i) ==
    CASE i = "EI" -> regs.iff1 /\ regs.iff2
      [] i = "DI" -> ~regs.iff1 /\ ~regs.iff2
      [] i = "RETN" -> regs.iff1 = last.regs0.iff2 /\ regs.iff2 = last.regs0.iff2
      [] OTHER -> regs.iff1 = last.regs0.iff1 /\ regs.iff2 = last.regs0.iff2

\* C37: EI sets IFF1 and IFF2, DI clears both, RETN and RETI copy IFF2 to
\* IFF1, every other instruction leaves both as they were, and IFF1 = IFF2 in
\* every state z80Step reaches from z80Init.
C37_Iff ==
    /\ StepDone => IffEffect(IffInstruction)
    /\ regs.iff1 = regs.iff2

\* C37 with ED FB and ED F3 counted as the EI and DI that z80Execute runs for
\* them.
C37_IffRun ==
    /\ StepDone => IffEffect(IffInstructionRun)
    /\ regs.iff1 = regs.iff2

\* ED FB, which has no instruction on the ED page, has set IFF1 and IFF2.
C37_Witness ==
    /\ StepDone
    /\ OpByte(0) = 237 /\ OpByte(1) = 251
    /\ ~last.regs0.iff1 /\ regs.iff1 /\ regs.iff2


\* C38: after setRunMode(m), getRunMode returns m, whatever the run mode was
\* before.
C38_SetRunMode == hist # <<>> => getRunMode = hist[Len(hist)]

\* The run mode behind every call of setRunMode is the run mode before the
\* first.
C38_RunModeKept == [][host'.mode = host.mode]_vars

\* setRunMode(StepIn) was called with the run mode Stopped.
C38_Witness == hist = <<"StepIn">> /\ getRunMode = "Stopped"


\* The indices z80GetReg is called with by the cases of z80Execute for the
\* opcode op that is no prefix: INC r, DEC r and LD r,n but for y = 6,
\* LD r,r' but for HALT and the slot that is (HL), and ALU r but for z = 6.
ExecuteCalls(op) ==
    LET x == DecodeX(op)
        y == DecodeY(op)
        z == DecodeZ(op)
    IN  CASE x = 0 -> IF z \in {4, 5, 6} /\ y # 6 THEN {y} ELSE {}
          [] x = 1 -> IF y = 6 /\ z = 6 THEN {}
                      ELSE IF y = 6 THEN {z}
                      ELSE IF z = 6 THEN {y}
                      ELSE {y, z}
          [] x = 2 -> IF z = 6 THEN {} ELSE {z}
          [] OTHER -> {}

\* By the CB page of z80Execute for its opcode op.
CBCalls(op) == IF DecodeZ(op) = 6 THEN {} ELSE {DecodeZ(op)}

\* By z80StepED for its opcode op: IN r,(C) and OUT (C),r.
EDCalls(op) ==
    IF DecodeX(op) = 1 /\ DecodeZ(op) \in {0, 1} /\ DecodeY(op) # 6
    THEN {DecodeY(op)} ELSE {}

\* By the x = 1 case of z80StepIndex for its opcode op.
IndexCalls(op) ==
    LET y == DecodeY(op)
        z == DecodeZ(op)
    IN  CASE DecodeX(op) # 1 \/ (y = 6 /\ z = 6) -> {}
          [] y \in {4, 5} -> IF z \in {4, 5} THEN {} ELSE IF z = 6 THEN {y} ELSE {z}
          [] y = 6 -> {z}
          [] OTHER -> IF z \in {4, 5, 6} THEN {y} ELSE {}

\* z80StepIndexCB that looks the register up for slot 6 as well.
IndexCBCalls_EverySlot(op) ==
    IF DecodeX(op) = 1 THEN {} ELSE {DecodeZ(op)}

\* By z80StepIndexCB for its opcode op: r = (z == 6) ? &v : z80GetReg(Z, z),
\* and none for BIT.
IndexCBCalls(op) ==
    IF DecodeX(op) = 1 \/ DecodeZ(op) = 6 THEN {} ELSE {DecodeZ(op)}

\* The switch of z80StepIndex sends the opcode op to invalid_instruction.
IndexInvalid(op) ==
    LET x == DecodeX(op)
        r == CASE x = 0 -> z80StepIndexX0(Machine, "ix", op)
               [] x = 1 -> z80StepIndexX1(Machine, "ix", op)
               [] x = 2 -> z80StepIndexX2(Machine, "ix", op)
               [] x = 3 -> z80StepIndexX3(Machine, "ix", op)
    IN  op # 203 /\ r.pos = "invalid"

\* The indices that z80GetReg is called with when the function named by page
\* runs the opcode at the k-th byte of the instruction that the last z80Step
\* began with: z80Execute, z80StepIndex or z80StepED, each with the calls of
\* the function it hands the opcode on to.
RECURSIVE z80GetRegCalls(_, _)
z80GetRegCalls(page, k) ==
    LET op == OpByte(k)
    IN  CASE page = "execute" ->
                CASE op = 203 -> CBCalls(OpByte(k + 1))
                  [] op \in {221, 253} -> z80GetRegCalls("index", k + 1)
                  [] op = 237 -> z80GetRegCalls("ed", k + 1)
                  [] OTHER -> ExecuteCalls(op)
          [] page = "index" ->
                CASE op = 203 -> IndexCBCalls(OpByte(k + 2))
                  [] IndexInvalid(op) -> z80GetRegCalls("execute", k)
                  [] OTHER -> IndexCalls(op)
          [] page = "ed" ->
                IF NoEDInstruction(op) THEN z80GetRegCalls("execute", k)
                ELSE EDCalls(op)

\* C39: no z80Step calls z80GetReg with an index other than 0, 1, 2, 3, 4, 5
\* and 7, whatever the opcode and its page: the assertion of z80GetReg does
\* not fail.
C39_GetReg ==
    StepDone => z80GetRegCalls("execute", 0) \subseteq {0, 1, 2, 3, 4, 5, 7}

\* FD CB d 86, RES 0,(IY+d), has run and changed the byte at IY+d without a
\* call of z80GetReg; the same with the opcode 80 has looked up B.
C39_Witness ==
    /\ StepDone
    /\ OpByte(0) = 253 /\ OpByte(1) = 203 /\ OpByte(3) = 134
    /\ z80GetRegCalls("execute", 0) = {}
    /\ mem # last.mem0

\* DD 70 d, LD (IX+d),B, has run: slot 6 is the target and z80GetReg was called
\* for B only.
C39_WitnessStore ==
    /\ StepDone
    /\ OpByte(0) = 221 /\ OpByte(1) = 112
    /\ z80GetRegCalls("execute", 0) = {0}

=============================================================================
